---- MODULE Spec2Model ----
(***************************************************************************)
(* State-machine model of the cloud relay service: the in-memory store     *)
(* (storage/memory_store.py), the hub session handler                      *)
(* (websocket/hub_endpoint.py), the client session handler and broadcast   *)
(* engine (websocket/client_endpoint.py) and the command dispatcher        *)
(* (services/command_service.py).                                          *)
(*                                                                         *)
(* Every coroutine is cut at the awaits that can suspend it: a socket      *)
(* receive and a socket send.  No store method awaits inside its critical  *)
(* section, so the store's lock is never contended across an await and in  *)
(* the session model a store call is part of the step that makes it; the   *)
(* store model (SpecStore) shows the lock itself, statement by statement.  *)
(*                                                                         *)
(* A Python dict is a set of items with at most one item per key.  The     *)
(* client registry also keeps its insertion order (client_entries): a dict *)
(* iterator walks the entries in that order, skips deleted ones, and       *)
(* raises RuntimeError when the dict's size differs from the size it had   *)
(* when the iterator was made.  (No resize happens within the bounds: a    *)
(* dict compacts its entries only at its 6th insertion.)                   *)
(***************************************************************************)
EXTENDS Integers, Sequences, FiniteSets, TLC

\* ------------------------------------------------------------------ bounds
MaxCap == 2            \* largest max_telemetry_per_hub tried by the store model
MaxAppends == 3        \* add_telemetry calls made in the store model
MaxHubMsgs == 2        \* frames the hubs send after their handshakes
MaxClientMsgs == 2     \* control frames the clients send
MaxReads == 1          \* get_telemetry_stats calls made in the store model
MaxCommands == 2       \* commands dispatched by the REST layer

\* -------------------------------------------------------- program constants
DefaultMaxTelemetry == 1000
WS_1008_POLICY_VIOLATION == 1008

\* -------------------------------------------------------------- value sets
HubIds == {"rpi-bridge-01", "rpi-bridge-02"}
Ports == {"P1", "P2"}
Conns == {"c1", "c2"}          \* hub websockets (physical connections)
Clients == {"k1", "k2"}        \* client websockets (physical connections)
Senders == {"s1", "s2"}        \* tasks calling the store concurrently
Reader == "r1"                 \* task calling get_telemetry_stats
Dispatchers == {"d1"}          \* REST tasks calling send_command_to_hub
None == "None"

\* A base64 text: its number of characters and how many of them are the
\* trailing padding "=".
B64(chars, pad) == [chars |-> chars, pad |-> pad]
D10 == B64(16, 2)
D3 == B64(4, 0)
D1 == B64(4, 2)
DBad == B64(5, 0)

VARIABLES
    \* MemoryStore
    max_telemetry_per_hub,  \* constructor argument
    lock,                   \* holder of MemoryStore._lock, or None
    store,                  \* the tables: _hubs, _telemetry, _health, ...
    \* store tasks (concurrent add_telemetry callers)
    spc, sargs, stmp,
    appended,               \* history: every entry the store tasks appended, per hub
    ncalls,                 \* store calls started by the store model's tasks
    \* store task reading the statistics (get_telemetry_stats)
    rpc, rargs,
    rtmp,                   \* its local total_bytes
    stats,                  \* the dict it returns
    nreads,                 \* get_telemetry_stats calls started
    telemetry_data,         \* the list a get_telemetry call returned to its caller
    \* hub connections (handle_hub_connection, one per websocket)
    hpc,                    \* where the handler is
    hub_id,                 \* its local hub_id
    hopen,                  \* the transport is open
    handshake,              \* the handshake frame it received
    close_code,             \* code of websocket.close(), 0 when not called
    cur,                    \* the frame being (or last) routed
    iter,                   \* the broadcast's dict iterator and its lists
    hub_out,                \* frames written to the hub's socket
    registered,             \* history: each add_hub_connection, in order
    removed,                \* history: each remove_hub_connection, in order
    nhub,                   \* frames sent by hubs
    \* client connections (handle_client_connection) and ClientManager
    cpc, copen,
    cstalled,               \* the peer has stopped reading: no send to it ends
    ctoken,                 \* the bearer token the connection presented
    caccepted,              \* websocket.accept() was called
    cclose,                 \* code of websocket.close(), 0 when not called
    client_entries,         \* clients: every websocket ever inserted, in order
    clients,                \* clients: the connection ids (indices) present
    subscriptions,          \* ClientConnection.subscriptions, per websocket
    creq,                   \* the control frame being answered
    reply,                  \* the subscription_status list being sent
    inbox,                  \* the last frame written to the client's socket
    nclient,                \* frames sent by clients
    \* command dispatch (send_command_to_hub)
    dpc, dreq,
    dresult,                \* history: what each finished call returned
    responses,              \* history: what each command endpoint call gave its caller
    ncmd

storeVars == <<max_telemetry_per_hub, lock, store>>
readerVars == <<rpc, rargs, rtmp, stats, nreads, telemetry_data>>
taskVars == <<spc, sargs, stmp, appended, ncalls, readerVars>>
hubVars == <<hpc, hub_id, hopen, handshake, close_code, cur, iter, hub_out,
             registered, removed, nhub>>
clientVars == <<cpc, copen, cstalled, ctoken, caccepted, cclose, client_entries, clients, subscriptions, creq,
                reply, inbox, nclient>>
dispVars == <<dpc, dreq, dresult, responses, ncmd>>
vars == <<storeVars, taskVars, hubVars, clientVars, dispVars>>

\* ------------------------------------------------------------ list helpers
Min(a, b) == IF a < b THEN a ELSE b

ToSet(xs) == {xs[i] : i \in 1..Len(xs)}

\* Python's xs[-n:] for n >= 1: the last n items, all of them when n >= len.
LastN(xs, n) ==
    IF Len(xs) <= n THEN xs ELSE SubSeq(xs, Len(xs) - n + 1, Len(xs))

\* len(base64.b64decode(text)); -1 stands for binascii.Error.
B64DecodedLen(d) ==
    IF d.chars % 4 # 0 \/ d.pad > 2 \/ d.pad > d.chars
    THEN -1
    ELSE (d.chars \div 4) * 3 - d.pad

\* ------------------------------------------------------------- MemoryStore
HubKey(x) == x.hub_id
PortKey(x) == <<x.hub_id, x.port_id>>
TaskKey(x) == <<x.hub_id, x.task_id>>

\* d[key] = item, and d.pop(key, None), on a dict held as a set of items
DictPut(d, Key(_), item) == {x \in d : Key(x) # Key(item)} \cup {item}
DictPop(d, Key(_), k) == {x \in d : Key(x) # k}
DictHas(d, Key(_), k) == \E x \in d : Key(x) = k
DictGet(d, Key(_), k) == CHOOSE x \in d : Key(x) = k

EmptyStore ==
    [hubs |-> {}, telemetry |-> [h \in HubIds |-> <<>>], health |-> {},
     device_events |-> [h \in HubIds |-> <<>>], ports |-> {},
     connections |-> {}, task_status |-> {}, clock |-> 0]

\* A registry that keeps the first session of a hub id.
AddKeepsFirst(s, h, ws) ==
    IF DictHas(s.hubs, HubKey, h) THEN s
    ELSE [s EXCEPT !.hubs = @ \cup {[hub_id |-> h, websocket |-> ws,
                                     connected_at |-> s.clock,
                                     last_seen |-> s.clock]}]

add_hub_connection(s, h, ws) ==
    [s EXCEPT !.hubs = DictPut(@, HubKey,
        [hub_id |-> h, websocket |-> ws, connected_at |-> s.clock,
         last_seen |-> s.clock])]

remove_hub_connection(s, h) == [s EXCEPT !.hubs = DictPop(@, HubKey, h)]

update_hub_last_seen(s, h) ==
    IF DictHas(s.hubs, HubKey, h)
    THEN [s EXCEPT !.hubs = DictPut(@, HubKey,
             [DictGet(s.hubs, HubKey, h) EXCEPT !.last_seen = s.clock])]
    ELSE s

TelemetryData(port_id, session_id, data, data_size_bytes, now) ==
    [timestamp |-> now, port_id |-> port_id, session_id |-> session_id,
     data |-> data, data_size_bytes |-> data_size_bytes]

\* A trim that keeps the oldest entries instead of the newest.
TrimKeepsOldest(xs, cap) ==
    IF Len(xs) > cap THEN SubSeq(xs, 1, cap) ELSE xs

\* "Limit size": the list after the append, cut to its last cap entries.
LimitSize(xs, cap) ==
    IF Len(xs) > cap THEN LastN(xs, cap) ELSE xs

\* A cap on the entries of all hubs together: the other hubs' lists give
\* way to the list that grows.
AddTelemetryTotalCap(s, h, port_id, session_id, data, size, cap) ==
    LET grown == LimitSize(
                     Append(s.telemetry[h],
                            TelemetryData(port_id, session_id, data, size, s.clock)),
                     cap)
        room == cap - Len(grown)
    IN [s EXCEPT
           !.telemetry = [g \in HubIds |->
               IF g = h THEN grown
               ELSE IF room <= 0 THEN <<>> ELSE LastN(s.telemetry[g], room)],
           !.clock = @ + 1]

\* The critical section of add_telemetry; the clock stands for utcnow() and
\* moves on with every entry.
add_telemetry(s, h, port_id, session_id, data, size, cap) ==
    [s EXCEPT
        !.telemetry[h] = LimitSize(
            Append(@, TelemetryData(port_id, session_id, data, size, s.clock)),
            cap),
        !.clock = @ + 1]

\* "limit: Optional[int] = None": NoLimit stands for None.
NoLimit == -1

\* A read that hands out the stored list itself.
ReturnsStoredList(s, h, limit) ==
    [hub_id |-> h, limit |-> limit,
     entries |-> IF limit # NoLimit /\ limit # 0
                 THEN LastN(s.telemetry[h], limit) ELSE s.telemetry[h],
     buffer |-> IF limit # NoLimit /\ limit # 0 THEN None ELSE h]

\* get_telemetry: "if limit: return entries[-limit:]", else entries.copy().
\* entries: the returned list; buffer: the hub id whose stored list the
\* returned list is (the same object), None for a list of its own, which a
\* slice and copy() both make.
get_telemetry(s, h, limit) ==
    [hub_id |-> h, limit |-> limit,
     entries |-> IF limit # NoLimit /\ limit # 0
                 THEN LastN(s.telemetry[h], limit) ELSE s.telemetry[h],
     buffer |-> None]

update_health(s, h, uptime) ==
    [s EXCEPT !.health = DictPut(@, HubKey,
        [hub_id |-> h, timestamp |-> s.clock, uptime_seconds |-> uptime])]

add_device_event(s, h, event_type, port_id, device_info) ==
    [s EXCEPT
        !.device_events[h] =
            Append(@, [event_type |-> event_type, port_id |-> port_id]),
        !.ports = IF event_type = "connected" /\ device_info
                  THEN DictPut(@, PortKey, [hub_id |-> h, port_id |-> port_id])
                  ELSE @]

update_connection(s, h, port_id, session_id, bytes_read, connected_at) ==
    [s EXCEPT !.connections = DictPut(@, PortKey,
        [hub_id |-> h, port_id |-> port_id, status |-> "connected",
         session_id |-> session_id, bytes_read |-> bytes_read,
         connected_at |-> connected_at])]

remove_connection(s, h, port_id) ==
    [s EXCEPT !.connections = DictPop(@, PortKey, <<h, port_id>>)]

update_task_status(s, h, task_id, status) ==
    [s EXCEPT !.task_status = DictPut(@, TaskKey,
        [hub_id |-> h, task_id |-> task_id, status |-> status,
         timestamp |-> s.clock])]

\* ------------------------------------------- add_telemetry, by statement
SenderArgs ==
    {[hub_id |-> h, port_id |-> p, data |-> IF p = "P1" THEN D3 ELSE D1] :
        h \in HubIds, p \in Ports}
NoArgs == [hub_id |-> None, port_id |-> None, data |-> B64(0, 0)]

\* A sender task calls store.add_telemetry(...) and reaches the lock.
SenderCall(t, a) ==
    /\ spc[t] = "idle"
    /\ ncalls < MaxAppends
    /\ ncalls' = ncalls + 1
    /\ sargs' = [sargs EXCEPT ![t] = a]
    /\ spc' = [spc EXCEPT ![t] = "acquire"]
    /\ UNCHANGED <<storeVars, stmp, appended, readerVars, hubVars, clientVars, dispVars>>

\* An acquire that does not wait for the holder to release.
AcquireIgnoresHolder(t) ==
    /\ spc[t] = "acquire"
    /\ lock' = t
    /\ spc' = [spc EXCEPT ![t] = "locked"]
    /\ UNCHANGED <<max_telemetry_per_hub, store, sargs, stmp, appended, ncalls,
                   readerVars, hubVars, clientVars, dispVars>>

\* async with self._lock: enter
LockAcquire(t) ==
    /\ spc[t] = "acquire"
    /\ lock = None
    /\ lock' = t
    /\ spc' = [spc EXCEPT ![t] = "locked"]
    /\ UNCHANGED <<max_telemetry_per_hub, store, sargs, stmp, appended, ncalls,
                   readerVars, hubVars, clientVars, dispVars>>

\* entry = TelemetryData(...); self._telemetry[hub_id].append(entry)
SenderAppend(t) ==
    /\ spc[t] = "locked"
    /\ LET a == sargs[t]
           e == TelemetryData(a.port_id, "sess", a.data, B64DecodedLen(a.data),
                              store.clock)
       IN /\ store' = [store EXCEPT !.telemetry[a.hub_id] = Append(@, e),
                                    !.clock = @ + 1]
          /\ appended' = [appended EXCEPT ![a.hub_id] = Append(@, e)]
    /\ spc' = [spc EXCEPT ![t] = "appended"]
    /\ UNCHANGED <<max_telemetry_per_hub, lock, sargs, stmp, ncalls,
                   readerVars, hubVars, clientVars, dispVars>>

\* if len(...) > max: evaluate self._telemetry[hub_id][-max:]
SenderSlice(t) ==
    /\ spc[t] = "appended"
    /\ LET xs == store.telemetry[sargs[t].hub_id]
       IN /\ stmp' = [stmp EXCEPT ![t] = LimitSize(xs, max_telemetry_per_hub)]
          /\ spc' = [spc EXCEPT ![t] = IF Len(xs) > max_telemetry_per_hub
                                       THEN "sliced" ELSE "release"]
    /\ UNCHANGED <<storeVars, sargs, appended, ncalls,
                   readerVars, hubVars, clientVars, dispVars>>

\* self._telemetry[hub_id] = <the slice>
SenderStore(t) ==
    /\ spc[t] = "sliced"
    /\ store' = [store EXCEPT !.telemetry[sargs[t].hub_id] = stmp[t]]
    /\ spc' = [spc EXCEPT ![t] = "release"]
    /\ UNCHANGED <<max_telemetry_per_hub, lock, sargs, stmp, appended, ncalls,
                   readerVars, hubVars, clientVars, dispVars>>

\* async with self._lock: exit; add_telemetry returns
LockRelease(t) ==
    /\ spc[t] = "release"
    /\ lock' = None
    /\ spc' = [spc EXCEPT ![t] = "idle"]
    /\ sargs' = [sargs EXCEPT ![t] = NoArgs]
    /\ stmp' = [stmp EXCEPT ![t] = <<>>]
    /\ UNCHANGED <<max_telemetry_per_hub, store, appended, ncalls,
                   readerVars, hubVars, clientVars, dispVars>>


\* ------------------------------------------------------- get_telemetry_stats
NoStats == [count |-> 0, total_bytes |-> 0]

\* sum(e.data_size_bytes for e in entries)
RECURSIVE TotalBytes(_)
TotalBytes(xs) ==
    IF xs = <<>> THEN 0 ELSE xs[1].data_size_bytes + TotalBytes(Tail(xs))

\* The reader calls store.get_telemetry_stats(hub_id) and reaches the lock.
ReaderCall(h) ==
    /\ rpc = "idle"
    /\ nreads < MaxReads
    /\ nreads' = nreads + 1
    /\ rargs' = h
    /\ rpc' = "acquire"
    /\ stats' = NoStats
    /\ UNCHANGED <<storeVars, spc, sargs, stmp, appended, ncalls, rtmp,
                   telemetry_data, hubVars, clientVars, dispVars>>

\* A reader that enters without taking the lock.
ReaderSkipsLock ==
    /\ rpc = "acquire"
    /\ rpc' = "locked"
    /\ UNCHANGED <<storeVars, spc, sargs, stmp, appended, ncalls, rargs, rtmp,
                   stats, nreads, telemetry_data, hubVars, clientVars, dispVars>>

\* async with self._lock: enter
ReaderAcquire ==
    /\ rpc = "acquire"
    /\ lock = None
    /\ lock' = Reader
    /\ rpc' = "locked"
    /\ UNCHANGED <<max_telemetry_per_hub, store, spc, sargs, stmp, appended,
                   ncalls, rargs, rtmp, stats, nreads, telemetry_data, hubVars,
                   clientVars, dispVars>>

\* entries = self._telemetry.get(hub_id, []); total_bytes = sum(...)
ReaderSum ==
    /\ rpc = "locked"
    /\ rtmp' = TotalBytes(store.telemetry[rargs])
    /\ rpc' = "summed"
    /\ UNCHANGED <<storeVars, spc, sargs, stmp, appended, ncalls, rargs, stats,
                   nreads, telemetry_data, hubVars, clientVars, dispVars>>

\* the returned dict: {"count": len(entries), "total_bytes": total_bytes}
ReaderCount ==
    /\ rpc = "summed"
    /\ stats' = [count |-> Len(store.telemetry[rargs]), total_bytes |-> rtmp]
    /\ rpc' = "release"
    /\ UNCHANGED <<storeVars, spc, sargs, stmp, appended, ncalls, rargs, rtmp,
                   nreads, telemetry_data, hubVars, clientVars, dispVars>>

\* async with self._lock: exit; get_telemetry_stats returns
ReaderRelease ==
    /\ rpc = "release"
    /\ lock' = None
    /\ rpc' = "idle"
    /\ rtmp' = 0
    /\ UNCHANGED <<max_telemetry_per_hub, store, spc, sargs, stmp, appended,
                   ncalls, rargs, stats, nreads, telemetry_data, hubVars, clientVars,
                   dispVars>>

\* ------------------------------------------------- the store's methods, whole
\* A call of one store method by a task that finds the lock free: the call
\* does not suspend and is one step.
StoreCalls ==
    {[op |-> "add_telemetry", port_id |-> "P1"],
     [op |-> "update_health", port_id |-> None],
     [op |-> "add_device_event", port_id |-> "P1"],
     [op |-> "update_connection", port_id |-> "P1"],
     [op |-> "remove_connection", port_id |-> "P1"],
     [op |-> "update_task_status", port_id |-> None],
     [op |-> "add_hub_connection", port_id |-> None],
     [op |-> "remove_hub_connection", port_id |-> None],
     [op |-> "update_hub_last_seen", port_id |-> None]}

ApplyCall(s, h, call, cap) ==
    CASE call.op = "add_telemetry" ->
            add_telemetry(s, h, call.port_id, "s-1", D3, B64DecodedLen(D3), cap)
      [] call.op = "update_health" -> update_health(s, h, 1)
      [] call.op = "add_device_event" ->
            add_device_event(s, h, "connected", call.port_id, TRUE)
      [] call.op = "update_connection" ->
            update_connection(s, h, call.port_id, "s-1", 0, s.clock)
      [] call.op = "remove_connection" -> remove_connection(s, h, call.port_id)
      [] call.op = "update_task_status" -> update_task_status(s, h, "T1", "running")
      [] call.op = "add_hub_connection" -> add_hub_connection(s, h, "c1")
      [] call.op = "remove_hub_connection" -> remove_hub_connection(s, h)
      [] call.op = "update_hub_last_seen" -> update_hub_last_seen(s, h)

StoreCall(h, call) ==
    /\ lock = None
    /\ ncalls < MaxAppends
    /\ ncalls' = ncalls + 1
    /\ store' = ApplyCall(store, h, call, max_telemetry_per_hub)
    /\ UNCHANGED <<max_telemetry_per_hub, lock, spc, sargs, stmp, appended,
                   readerVars, hubVars, clientVars, dispVars>>

\* ------------------------------------------------------------ get_telemetry
NoTelemetryData == [hub_id |-> None, limit |-> NoLimit, entries |-> <<>>,
                    buffer |-> None]
Limits == {NoLimit, 1, 2, 3}

\* "telemetry_data = await store.get_telemetry(hub_id, limit=limit)"
ReadTelemetry(h, limit) ==
    /\ lock = None
    /\ nreads < MaxReads
    /\ nreads' = nreads + 1
    /\ telemetry_data' = get_telemetry(store, h, limit)
    /\ UNCHANGED <<storeVars, spc, sargs, stmp, appended, ncalls, rpc, rargs,
                   rtmp, stats, hubVars, clientVars, dispVars>>

\* The caller changes the list it was given (telemetry_data.pop()): a list
\* that is the stored list changes in the store as well.
CallerMutates ==
    /\ telemetry_data.hub_id # None
    /\ telemetry_data.entries # <<>>
    /\ LET shorter == SubSeq(telemetry_data.entries, 1,
                             Len(telemetry_data.entries) - 1)
       IN /\ telemetry_data' = [telemetry_data EXCEPT !.entries = shorter]
          /\ store' = IF telemetry_data.buffer = None THEN store
                      ELSE [store EXCEPT !.telemetry[telemetry_data.buffer] = shorter]
    /\ UNCHANGED <<max_telemetry_per_hub, lock, spc, sargs, stmp, appended, ncalls,
                   rpc, rargs, rtmp, stats, nreads, hubVars, clientVars, dispVars>>

\* --------------------------------------------------------- frames on the wire
\* A frame a hub sends.  json: the text parses; fields_ok: the pydantic model
\* of its type accepts it; metrics_ok: system.cpu/memory/disk are objects.
\* hubId is the id the frame claims, which no handler reads.
BaseFrame ==
    [type |-> "unknown", json |-> TRUE, fields_ok |-> TRUE,
     hubId |-> "rpi-bridge-01", portId |-> None, sessionId |-> None,
     data |-> B64(0, 0), eventType |-> None, deviceInfo |-> FALSE,
     metrics_ok |-> TRUE, taskId |-> None, status |-> None]
NoFrame == [BaseFrame EXCEPT !.type = "none"]
Telemetry(p, d) ==
    [BaseFrame EXCEPT !.type = "telemetry", !.portId = p, !.sessionId = "s-1",
                      !.data = d]
Health(ok) == [BaseFrame EXCEPT !.type = "health", !.metrics_ok = ok]
DeviceEvent(e, p, info) ==
    [BaseFrame EXCEPT !.type = "device_event", !.eventType = e, !.portId = p,
                      !.deviceInfo = info]
TaskStatusFrame(t, st) ==
    [BaseFrame EXCEPT !.type = "task_status", !.taskId = t, !.status = st]
Invalid(f) == [f EXCEPT !.fields_ok = FALSE]
NotJson == [BaseFrame EXCEPT !.json = FALSE]

HubFrames ==
    {Telemetry("P1", D10), Telemetry("P2", D3), Telemetry("P1", DBad),
     Invalid(Telemetry("P1", D3)), Health(TRUE), Health(FALSE),
     DeviceEvent("connected", "P1", TRUE), DeviceEvent("connected", "P2", FALSE),
     DeviceEvent("disconnected", "P1", FALSE),
     TaskStatusFrame("T1", "running"), BaseFrame, NotJson}

\* A frame the service writes to a client's socket (a subscription_status
\* without its list, which reply holds).
OutFrame(type, h, p, size) ==
    [type |-> type, hubId |-> h, portId |-> p, dataSizeBytes |-> size]
NoOutFrame == OutFrame("none", None, None, 0)

\* ------------------------------------------------------ verify_device_token
\* Settings.get_valid_device_tokens(): device token -> hub id
ValidDeviceTokens ==
    {[token |-> "dev-token-rpi-bridge-01", hub_id |-> "rpi-bridge-01"],
     [token |-> "dev-token-rpi-bridge-02", hub_id |-> "rpi-bridge-02"]}

verify_device_token(device_token) ==
    IF \E x \in ValidDeviceTokens : x.token = device_token
    THEN (CHOOSE x \in ValidDeviceTokens : x.token = device_token).hub_id
    ELSE None

\* The first frame of a hub connection.  kind: "ok" (the HubHandshake model
\* accepts it), "missing_fields" (ValidationError) or "not_json"; type: its
\* type field, which the model takes as any string.
HandshakeFrame(kind, type, hubId, deviceToken) ==
    [kind |-> kind, type |-> type, hubId |-> hubId, deviceToken |-> deviceToken]
Handshakes ==
    {HandshakeFrame("ok", "hub_connect", "rpi-bridge-01", t) :
        t \in {"dev-token-rpi-bridge-01", "dev-token-rpi-bridge-02", "bogus"}}
    \cup {HandshakeFrame("ok", "hub_connect", "rpi-bridge-02",
                         "dev-token-rpi-bridge-02"),
          HandshakeFrame("ok", "telemetry", "rpi-bridge-01",
                         "dev-token-rpi-bridge-01")}
    \cup {HandshakeFrame(k, "hub_connect", "rpi-bridge-01",
                         "dev-token-rpi-bridge-01") :
             k \in {"missing_fields", "not_json"}}
NoHandshake == HandshakeFrame("none", None, None, None)

\* A handshake check that trusts the claimed hub id of any known token.
AcceptsAnyKnownToken(hs) ==
    /\ hs.kind = "ok"
    /\ verify_device_token(hs.deviceToken) # None

\* A handshake check that registers every frame whose fields validate.
RegistersUnverified(hs) == hs.kind = "ok"

\* handle_hub_connection, lines 53-74: the handshake passes every check
HandshakeAccepted(hs) ==
    /\ hs.kind = "ok"
    /\ verify_device_token(hs.deviceToken) # None
    /\ verify_device_token(hs.deviceToken) = hs.hubId

\* ... and whether the handler calls websocket.close(code=1008)
HandshakeCloseCode(hs) ==
    IF hs.kind = "not_json" THEN 0 ELSE WS_1008_POLICY_VIOLATION

\* ------------------------------------------------------- the event handlers
\* Each handler's store calls, as the store they leave; s is the store after
\* update_hub_last_seen.
\* A handler that writes the size of the last payload as bytes_read and
\* restarts connected_at.
TelemetryOverwritesRecord(s, h, m, cap) ==
    LET size == B64DecodedLen(m.data)
        s1 == add_telemetry(s, h, m.portId, m.sessionId, m.data, size, cap)
    IN IF DictHas(s1.connections, PortKey, <<h, m.portId>>)
       THEN update_connection(s1, h, m.portId, m.sessionId, size, s1.clock)
       ELSE add_device_event(
                update_connection(s1, h, m.portId, m.sessionId, size, s1.clock),
                h, "connected", m.portId, TRUE)

\* A handler that creates the connection record of a new port without the
\* device event that creates its port record.
TelemetryWithoutPortRecord(s, h, m, cap) ==
    LET size == B64DecodedLen(m.data)
        s1 == add_telemetry(s, h, m.portId, m.sessionId, m.data, size, cap)
        key == <<h, m.portId>>
    IN IF DictHas(s1.connections, PortKey, key)
       THEN LET existing == DictGet(s1.connections, PortKey, key)
            IN update_connection(s1, h, m.portId, m.sessionId,
                                 existing.bytes_read + size,
                                 existing.connected_at)
       ELSE update_connection(s1, h, m.portId, m.sessionId, size, s1.clock)

handle_telemetry(s, h, m, cap) ==
    LET size == B64DecodedLen(m.data)
        s1 == add_telemetry(s, h, m.portId, m.sessionId, m.data, size, cap)
        key == <<h, m.portId>>
    IN IF DictHas(s1.connections, PortKey, key)
       THEN LET existing == DictGet(s1.connections, PortKey, key)
            IN update_connection(s1, h, m.portId, m.sessionId,
                                 existing.bytes_read + size,
                                 existing.connected_at)
       ELSE add_device_event(
                update_connection(s1, h, m.portId, m.sessionId, size, s1.clock),
                h, "connected", m.portId, TRUE)

handle_health(s, h, m) == update_health(s, h, 1)

handle_device_event(s, h, m) ==
    LET s1 == add_device_event(s, h, m.eventType, m.portId, m.deviceInfo)
    IN IF m.eventType = "connected" /\ m.deviceInfo
       THEN update_connection(s1, h, m.portId, "", 0, s1.clock)
       ELSE IF m.eventType = "disconnected"
            THEN remove_connection(s1, h, m.portId)
            ELSE s1

handle_task_status(s, h, m) == update_task_status(s, h, m.taskId, m.status)

\* A router that runs the handler of any frame of a known type.
HandlesUnvalidated(m) ==
    m.type \in {"telemetry", "health", "device_event", "task_status"}

\* The frame's handler runs its store calls (it is of a known type, its
\* fields validate and, for telemetry, its data decodes).
Handled(m) ==
    /\ m.type \in {"telemetry", "health", "device_event", "task_status"}
    /\ m.fields_ok
    /\ m.type = "telemetry" => B64DecodedLen(m.data) >= 0

\* A router that passes the hub id the frame claims to the handlers.
RouteByClaimedId(s, h, m, cap) ==
    IF ~Handled(m) THEN s
    ELSE CASE m.type = "telemetry" -> handle_telemetry(s, m.hubId, m, cap)
           [] m.type = "health" -> handle_health(s, m.hubId, m)
           [] m.type = "device_event" -> handle_device_event(s, m.hubId, m)
           [] m.type = "task_status" -> handle_task_status(s, m.hubId, m)

\* A router whose handlers go to their broadcast without their store calls.
RouteSkipsStore(s, h, m, cap) == s

\* route_hub_message: the store after the frame has been routed
route_hub_message(s, h, m, cap) ==
    IF ~Handled(m) THEN s
    ELSE CASE m.type = "telemetry" -> handle_telemetry(s, h, m, cap)
           [] m.type = "health" -> handle_health(s, h, m)
           [] m.type = "device_event" -> handle_device_event(s, h, m)
           [] m.type = "task_status" -> handle_task_status(s, h, m)

\* The handler reaches its broadcast_* call.
Broadcasts(m) ==
    /\ Handled(m)
    /\ m.type \in {"telemetry", "health", "device_event"}
    /\ m.type = "health" => m.metrics_ok

\* broadcast_telemetry and broadcast_device_event test is_subscribed;
\* broadcast_health does not.
Scoped(m) == m.type \in {"telemetry", "device_event"}

\* The client_message the handler builds.
ClientMessage(h, m) ==
    CASE m.type = "telemetry" ->
            OutFrame("telemetry_stream", h, m.portId, B64DecodedLen(m.data))
      [] m.type = "device_event" -> OutFrame("device_event", h, m.portId, 0)
      [] OTHER -> OutFrame(m.type, h, None, 0)

\* --------------------------------------------------------- broadcast engine
\* used, pos: the dict iterator (the dict's size when it was made, the index
\* of the entry it gave last); disconnected: the method's list; message: the
\* handler's client_message.  History: delivered, the ids the frame was
\* written to; audience, the ids registered with an open socket (and, for a
\* scoped frame, subscribed to its pair) ever since the frame was handled;
\* eligible, the
\* ids registered (and subscribed) at some moment since then; outcome.
NoIter ==
    [used |-> 0, pos |-> 0, disconnected |-> <<>>, message |-> NoOutFrame,
     delivered |-> <<>>, audience |-> {}, eligible |-> {}, outcome |-> "none"]

\* client.is_subscribed(hub_id, port_id) for the entry at index j, or no test
Matches(j, h, m) ==
    Scoped(m) => <<h, m.portId>> \in subscriptions[client_entries[j]]

\* history: the registered connection ids whose socket is open
Connected == {j \in clients : copen[client_entries[j]]}

\* history: the connection ids in ids leave the audience of every
\* broadcast still running
Unstable(its, ids) ==
    [c \in Conns |->
        IF its[c].outcome = "running"
        THEN [its[c] EXCEPT !.audience = @ \ ids] ELSE its[c]]

\* "for connection_id, client in self.clients.items()": the loop of a
\* broadcast_* method from its iterator's next() up to the next send it
\* starts, or to the end of the method.  it is the iterator after the last
\* send.  A dict that changed size makes next() raise RuntimeError, which
\* leaves the method before its clean-up and is caught in route_hub_message.
BroadcastLoop(c, h, m, it) ==
    IF Cardinality(clients) # it.used
    THEN /\ clients' = clients
         /\ iter' = [iter EXCEPT ![c] = [it EXCEPT !.outcome = "aborted"]]
         /\ hpc' = [hpc EXCEPT ![c] = "recv"]
    ELSE LET cand == {j \in clients : j > it.pos /\ Matches(j, h, m)}
         IN IF cand = {}
            THEN \* "Clean up disconnected clients", then the handler returns
                 /\ clients' = clients \ ToSet(it.disconnected)
                 /\ iter' = [Unstable(iter, ToSet(it.disconnected))
                                EXCEPT ![c] = [it EXCEPT !.outcome = "done"]]
                 /\ hpc' = [hpc EXCEPT ![c] = "recv"]
            ELSE \* await client.websocket.send_text(...) of the next match
                 /\ clients' = clients
                 /\ iter' = [iter EXCEPT ![c] =
                        [it EXCEPT !.pos = CHOOSE j \in cand : \A i \in cand : j <= i]]
                 /\ hpc' = [hpc EXCEPT ![c] = "bsend"]

\* ------------------------------------------------------ handle_hub_connection
\* A clean-up that closes the connection and leaves the registry alone.
CleanupKeepsSession(c, s) ==
    /\ store' = s
    /\ removed' = removed
    /\ hpc' = [hpc EXCEPT ![c] = "closed"]
    /\ hopen' = [hopen EXCEPT ![c] = FALSE]

\* A handler that, instead of returning, goes on into its message loop.
CleanupReturnsToLoop(c, s) ==
    /\ store' = IF hub_id[c] # None THEN remove_hub_connection(s, hub_id[c]) ELSE s
    /\ removed' = removed
    /\ hpc' = [hpc EXCEPT ![c] = "recv"]
    /\ hopen' = hopen

\* "finally": remove_hub_connection(hub_id) if the handshake had set hub_id;
\* the endpoint returns and the server closes the socket.
HubCleanup(c, s) ==
    /\ store' = IF hub_id[c] # None THEN remove_hub_connection(s, hub_id[c]) ELSE s
    /\ removed' = IF hub_id[c] # None
                  THEN Append(removed,
                           [conn |-> c, hub_id |-> hub_id[c],
                            evicted |-> IF DictHas(s.hubs, HubKey, hub_id[c])
                                        THEN DictGet(s.hubs, HubKey, hub_id[c]).websocket
                                        ELSE None])
                  ELSE removed
    /\ hpc' = [hpc EXCEPT ![c] = "closed"]
    /\ hopen' = [hopen EXCEPT ![c] = FALSE]

\* await websocket.accept()
HubAccept(c) ==
    /\ hpc[c] = "connecting"
    /\ hpc' = [hpc EXCEPT ![c] = "handshake"]
    /\ UNCHANGED <<storeVars, taskVars, hub_id, hopen, handshake, close_code,
                   cur, iter, hub_out, registered, removed, nhub, clientVars, dispVars>>

\* The first frame arrives: validate it, verify the token, register, and
\* start sending the acknowledgment.
HubHandshake(c, hs) ==
    /\ hpc[c] = "handshake"
    /\ hopen[c]
    /\ handshake' = [handshake EXCEPT ![c] = hs]
    /\ IF HandshakeAccepted(hs)
       THEN /\ hub_id' = [hub_id EXCEPT ![c] = hs.hubId]
            /\ store' = add_hub_connection(store, hs.hubId, c)
            /\ registered' = Append(registered, <<hs.hubId, c>>)
            /\ hpc' = [hpc EXCEPT ![c] = "ack"]
            /\ UNCHANGED <<hopen, close_code, removed>>
       ELSE /\ close_code' = [close_code EXCEPT ![c] = HandshakeCloseCode(hs)]
            /\ HubCleanup(c, store)
            /\ UNCHANGED <<hub_id, registered>>
    /\ UNCHANGED <<max_telemetry_per_hub, lock, taskVars, cur, iter, hub_out,
                   nhub, clientVars, dispVars>>

\* The send of the acknowledgment ends: written, or an exception when the
\* transport has closed.
HubAckSent(c) ==
    /\ hpc[c] = "ack"
    /\ IF hopen[c]
       THEN /\ hub_out' = [hub_out EXCEPT ![c] = Append(@, "hub_connected")]
            /\ hpc' = [hpc EXCEPT ![c] = "recv"]
            /\ UNCHANGED <<store, hopen, removed>>
       ELSE /\ HubCleanup(c, store)
            /\ UNCHANGED hub_out
    /\ UNCHANGED <<max_telemetry_per_hub, lock, taskVars, hub_id, handshake,
                   close_code, cur, iter, registered, nhub, clientVars, dispVars>>

\* A loop that hands each frame to a task of its own and receives the next
\* frame while the sends of the last one are pending.
LoopRunsAhead(c) == hpc[c] \in {"recv", "bsend"}

\* "while True: message_data = await websocket.receive_text()": the handler
\* is at the receive of its loop, which it reaches again only when
\* "await route_hub_message(...)" has returned.
AwaitingFrame(c) == hpc[c] = "recv"

\* The message loop receives a frame: update last seen, route it, and run
\* its handler up to the first send of its broadcast (or to its end).
HubReceive(c, m) ==
    /\ AwaitingFrame(c)
    /\ hopen[c]
    /\ nhub < MaxHubMsgs
    /\ nhub' = nhub + 1
    /\ cur' = [cur EXCEPT ![c] = m]
    /\ IF ~m.json
       THEN \* json.loads raises: except Exception, finally
            /\ HubCleanup(c, store)
            /\ UNCHANGED <<iter, clients>>
       ELSE /\ store' = route_hub_message(
                            update_hub_last_seen(store, hub_id[c]),
                            hub_id[c], m, max_telemetry_per_hub)
            /\ UNCHANGED <<hopen, removed>>
            /\ IF Broadcasts(m)
               THEN BroadcastLoop(c, hub_id[c], m,
                        [NoIter EXCEPT
                            !.used = Cardinality(clients),
                            !.message = ClientMessage(hub_id[c], m),
                            !.outcome = "running",
                            !.audience = {j \in Connected :
                                             Matches(j, hub_id[c], m)},
                            !.eligible = {j \in clients : Matches(j, hub_id[c], m)}])
               ELSE /\ hpc' = hpc
                    /\ iter' = [iter EXCEPT ![c] =
                           [NoIter EXCEPT !.audience =
                               IF Handled(m) /\ ~Scoped(m) THEN Connected ELSE {}]]
                    /\ clients' = clients
    /\ UNCHANGED <<max_telemetry_per_hub, lock, taskVars, hub_id, handshake,
                   close_code, hub_out, registered, cpc, copen, cstalled, ctoken, caccepted, cclose, client_entries,
                   subscriptions, creq, reply, inbox, nclient, dispVars>>

\* The pending send of a broadcast ends: the frame is written to the
\* client's socket, or the send raises and the client is marked; the loop
\* then goes on.  The send to a peer that has stopped reading does not end.
HubSendDone(c) ==
    /\ hpc[c] = "bsend"
    /\ ~cstalled[client_entries[iter[c].pos]]
    /\ LET j == iter[c].pos
           k == client_entries[j]
       IN IF copen[k]
          THEN /\ inbox' = [inbox EXCEPT ![k] = iter[c].message]
               /\ BroadcastLoop(c, hub_id[c], cur[c],
                      [iter[c] EXCEPT !.delivered = Append(@, j)])
          ELSE /\ inbox' = inbox
               /\ BroadcastLoop(c, hub_id[c], cur[c],
                      [iter[c] EXCEPT !.disconnected = Append(@, j)])
    /\ UNCHANGED <<storeVars, taskVars, hub_id, hopen, handshake, close_code,
                   cur, hub_out, registered, removed, nhub, cpc, copen, cstalled, ctoken, caccepted, cclose, client_entries,
                   subscriptions, creq, reply, nclient, dispVars>>

\* The hub's end closes the transport.
HubTransportClose(c) ==
    /\ hpc[c] \in {"handshake", "ack", "recv", "bsend"}
    /\ hopen[c]
    /\ hopen' = [hopen EXCEPT ![c] = FALSE]
    /\ UNCHANGED <<storeVars, taskVars, hpc, hub_id, handshake, close_code,
                   cur, iter, hub_out, registered, removed, nhub, clientVars, dispVars>>

\* receive_text raises WebSocketDisconnect: except, finally
HubDisconnect(c) ==
    /\ hpc[c] \in {"handshake", "recv"}
    /\ ~hopen[c]
    /\ HubCleanup(c, store)
    /\ UNCHANGED <<max_telemetry_per_hub, lock, taskVars, hub_id, handshake,
                   close_code, cur, iter, hub_out, registered, nhub, clientVars,
                   dispVars>>

\* --------------------------------------------------- handle_client_connection
\* A control frame a client sends: its subscriptions list holds entries with
\* hubId and portId, "" standing for a missing or empty field.
Sub(h, p) == [hubId |-> h, portId |-> p]
ClientFrame(type, list) == [type |-> type, json |-> TRUE, subscriptions |-> list]
ClientFrames ==
    {ClientFrame("subscribe", <<Sub("rpi-bridge-01", "P1")>>),
     ClientFrame("subscribe", <<Sub("rpi-bridge-01", "P2"), Sub("rpi-bridge-02", "")>>),
     ClientFrame("unsubscribe", <<Sub("rpi-bridge-01", "P1")>>),
     ClientFrame("unsubscribe", <<Sub("rpi-bridge-01", "P2"), Sub("", "P1"),
                                  Sub("rpi-bridge-01", "P1")>>),
     ClientFrame("ping", <<>>),
     [ClientFrame("subscribe", <<>>) EXCEPT !.json = FALSE]}

NoControl == [frame |-> ClientFrame("none", <<>>), before |-> {}]

\* "if hub_id and port_id": both fields are present and non-empty
Named(sub) == sub.hubId # "" /\ sub.portId # ""
NamedPairs(list) ==
    {<<list[i].hubId, list[i].portId>> : i \in {n \in 1..Len(list) : Named(list[n])}}

\* Sessions that share one subscription set (a set held by the class, not
\* by the instance).
SharedSubscriptions(subs, k, after) == [j \in Clients |-> after]

\* ClientConnection.subscriptions is a set of the instance, made in
\* __init__: subscribe and unsubscribe change the set of the session the
\* handler looked up by its own connection id.
SessionSubscriptions(subs, k, after) == [subs EXCEPT ![k] = after]

\* The connection id add_client gave the websocket: "client_<counter>".
ConnId(k) == CHOOSE j \in 1..Len(client_entries) : client_entries[j] = k

\* A set as a list, in some order (the order a Python set iterates in).
RECURSIVE SetToSeq(_)
SetToSeq(S) ==
    IF S = {} THEN <<>>
    ELSE LET x == CHOOSE y \in S : TRUE IN <<x>> \o SetToSeq(S \ {x})

Status(pair, status) == [hubId |-> pair[1], portId |-> pair[2], status |-> status]

\* A confirmation that lists one pair of the set only.
ConfirmsOnePair(subs) ==
    [i \in 1..Min(1, Cardinality(subs)) |-> Status(SetToSeq(subs)[i], "active")]

\* handle_subscribe's confirmation: the client's whole subscription set
SubscribeConfirmation(subs) ==
    [i \in 1..Cardinality(subs) |-> Status(SetToSeq(subs)[i], "active")]

\* A confirmation that lists only the pairs the request removed.
ConfirmsRemovedOnly(list, before) ==
    LET named == SelectSeq(list, Named)
        kept == SelectSeq(named, LAMBDA s : <<s.hubId, s.portId>> \in before)
    IN [i \in 1..Len(kept) |->
           Status(<<kept[i].hubId, kept[i].portId>>, "inactive")]

\* handle_unsubscribe's confirmation: one item per entry of the request that
\* has both fields, in the request's order; before is the subscription set
\* the request found.
UnsubscribeConfirmation(list, before) ==
    LET named == SelectSeq(list, Named)
    IN [i \in 1..Len(named) |->
           Status(<<named[i].hubId, named[i].portId>>, "inactive")]

\* A removal that, finding the id gone, drops the newest entry instead.
RemoveNewestWhenAbsent(ids, id) ==
    IF id \in ids THEN ids \ {id}
    ELSE ids \ {j \in ids : \A i \in ids : i <= j}

\* ClientManager.remove_client: self.clients.pop(connection_id, None)
remove_client(ids, id) == ids \ {id}

\* "finally": client_manager.remove_client(connection_id); the endpoint
\* returns and the server closes the socket.
ClientCleanup(k) ==
    /\ clients' = remove_client(clients, ConnId(k))
    /\ iter' = Unstable(iter, {ConnId(k)})
    /\ cpc' = [cpc EXCEPT ![k] = "closed"]
    /\ copen' = [copen EXCEPT ![k] = FALSE]

\* verifyClientToken(token) -> principal | none: the bearer-token verifier
\* the handler awaits.  It gives the principal, gives none (an invalid or
\* expired token), or raises.
ClientTokens == {"jwt-admin", "jwt-expired", "jwt-garbled"}
NoToken == "no-token"
Raised == "raised"
get_current_user_ws(token) ==
    CASE token = "jwt-admin" -> "admin"
      [] token = "jwt-expired" -> None
      [] OTHER -> Raised

\* A handler that accepts and registers the connection whatever the
\* verifier gave.
ClientConnectUnverified(k, token) ==
    /\ cpc[k] = "connecting"
    /\ copen[k]
    /\ ctoken' = [ctoken EXCEPT ![k] = token]
    /\ caccepted' = [caccepted EXCEPT ![k] = TRUE]
    /\ client_entries' = Append(client_entries, k)
    /\ clients' = clients \cup {Len(client_entries) + 1}
    /\ subscriptions' = [subscriptions EXCEPT ![k] = {}]
    /\ cpc' = [cpc EXCEPT ![k] = "welcome"]
    /\ UNCHANGED <<storeVars, taskVars, hubVars, copen, cstalled, cclose, creq,
                   reply, inbox, nclient, dispVars>>

\* The bearer token is verified; a good one gets the connection accepted,
\* registered with no subscriptions, and the welcome frame started; with
\* no principal, or an exception, the socket is closed with the
\* policy-violation code and the handler returns.
ClientConnect(k, token) ==
    /\ cpc[k] = "connecting"
    /\ copen[k]
    /\ ctoken' = [ctoken EXCEPT ![k] = token]
    /\ IF get_current_user_ws(token) \notin {None, Raised}
       THEN /\ caccepted' = [caccepted EXCEPT ![k] = TRUE]
            /\ client_entries' = Append(client_entries, k)
            /\ clients' = clients \cup {Len(client_entries) + 1}
            /\ iter' = [c \in Conns |->
                   IF iter[c].outcome = "running" /\ ~Scoped(cur[c])
                   THEN [iter[c] EXCEPT !.eligible = @ \cup {Len(client_entries) + 1}]
                   ELSE iter[c]]
            /\ subscriptions' = [subscriptions EXCEPT ![k] = {}]
            /\ cpc' = [cpc EXCEPT ![k] = "welcome"]
            /\ UNCHANGED <<copen, cclose>>
       ELSE /\ cclose' = [cclose EXCEPT ![k] = WS_1008_POLICY_VIOLATION]
            /\ cpc' = [cpc EXCEPT ![k] = "closed"]
            /\ copen' = [copen EXCEPT ![k] = FALSE]
            /\ UNCHANGED <<caccepted, client_entries, clients, subscriptions, iter>>
    /\ UNCHANGED <<storeVars, taskVars, hpc, hub_id, hopen, handshake,
                   close_code, cur, hub_out, registered, removed, nhub, cstalled,
                   creq, reply, inbox, nclient, dispVars>>

\* The send of the welcome frame ends.
ClientWelcomeSent(k) ==
    /\ cpc[k] = "welcome"
    /\ ~cstalled[k]
    /\ IF copen[k]
       THEN /\ inbox' = [inbox EXCEPT ![k] = OutFrame("connected", None, None, 0)]
            /\ cpc' = [cpc EXCEPT ![k] = "recv"]
            /\ UNCHANGED <<copen, clients, iter>>
       ELSE /\ ClientCleanup(k)
            /\ inbox' = inbox
    /\ UNCHANGED <<storeVars, taskVars, hpc, hub_id, hopen, handshake,
                   close_code, cur, hub_out, registered, removed, nhub, cstalled, ctoken, caccepted, cclose, client_entries,
                   subscriptions, creq, reply, nclient, dispVars>>

\* The message loop receives a control frame and routes it; a subscribe or
\* unsubscribe changes the set and starts sending its confirmation.
ClientReceive(k, f) ==
    /\ cpc[k] = "recv"
    /\ copen[k]
    /\ nclient < MaxClientMsgs
    /\ nclient' = nclient + 1
    /\ IF ~f.json
       THEN /\ ClientCleanup(k)
            /\ UNCHANGED <<subscriptions, creq, reply>>
       ELSE IF f.type \in {"subscribe", "unsubscribe"} /\ ConnId(k) \in clients
       THEN LET before == subscriptions[k]
                after == IF f.type = "subscribe"
                         THEN before \cup NamedPairs(f.subscriptions)
                         ELSE before \ NamedPairs(f.subscriptions)
            IN /\ subscriptions' = SessionSubscriptions(subscriptions, k, after)
               /\ reply' = [reply EXCEPT ![k] =
                      IF f.type = "subscribe"
                      THEN SubscribeConfirmation(after)
                      ELSE UnsubscribeConfirmation(f.subscriptions, before)]
               /\ creq' = [creq EXCEPT ![k] = [frame |-> f, before |-> before]]
               /\ iter' = [c \in Conns |->
                      IF iter[c].outcome = "running" /\ Scoped(cur[c])
                      THEN IF <<hub_id[c], cur[c].portId>> \in before \ after
                           THEN [iter[c] EXCEPT !.audience = @ \ {ConnId(k)}]
                           ELSE IF <<hub_id[c], cur[c].portId>> \in after
                           THEN [iter[c] EXCEPT !.eligible = @ \cup {ConnId(k)}]
                           ELSE iter[c]
                      ELSE iter[c]]
               /\ cpc' = [cpc EXCEPT ![k] = "reply"]
               /\ UNCHANGED <<clients, copen>>
       ELSE UNCHANGED <<subscriptions, creq, reply, iter, cpc, clients, copen>>
    /\ UNCHANGED <<storeVars, taskVars, hpc, hub_id, hopen, handshake,
                   close_code, cur, hub_out, registered, removed, nhub, cstalled, ctoken, caccepted, cclose, client_entries,
                   inbox, dispVars>>

\* The send of the subscription_status ends: written, or an exception that
\* route_client_message logs.
ClientReplySent(k) ==
    /\ cpc[k] = "reply"
    /\ ~cstalled[k]
    /\ inbox' = IF copen[k]
                THEN [inbox EXCEPT ![k] =
                         OutFrame("subscription_status", None, None, 0)]
                ELSE inbox
    /\ reply' = [reply EXCEPT ![k] = <<>>]
    /\ creq' = [creq EXCEPT ![k] = NoControl]
    /\ cpc' = [cpc EXCEPT ![k] = "recv"]
    /\ UNCHANGED <<storeVars, taskVars, hubVars, copen, cstalled, ctoken, caccepted, cclose, client_entries, clients,
                   subscriptions, nclient, dispVars>>

\* The client's end closes the transport.
ClientTransportClose(k) ==
    /\ cpc[k] \in {"welcome", "recv", "reply"}
    /\ copen[k]
    /\ copen' = [copen EXCEPT ![k] = FALSE]
    /\ iter' = Unstable(iter, {ConnId(k)})
    /\ UNCHANGED <<storeVars, taskVars, hpc, hub_id, hopen, handshake,
                   close_code, cur, hub_out, registered, removed, nhub, cpc,
                   cstalled, ctoken, caccepted, cclose, client_entries, clients, subscriptions, creq, reply, inbox,
                   nclient, dispVars>>

\* The client's end stops reading while its socket stays open: from now on
\* a send to it is awaited without end.
ClientStall(k) ==
    /\ cpc[k] \in {"welcome", "recv", "reply"}
    /\ copen[k]
    /\ ~cstalled[k]
    /\ cstalled' = [cstalled EXCEPT ![k] = TRUE]
    /\ UNCHANGED <<storeVars, taskVars, hubVars, cpc, copen, ctoken, caccepted,
                   cclose, client_entries, clients, subscriptions, creq, reply,
                   inbox, nclient, dispVars>>

\* receive_text raises WebSocketDisconnect: except, finally
ClientDisconnect(k) ==
    /\ cpc[k] = "recv"
    /\ ~copen[k]
    /\ ClientCleanup(k)
    /\ UNCHANGED <<storeVars, taskVars, hpc, hub_id, hopen, handshake,
                   close_code, cur, hub_out, registered, removed, nhub, cstalled, ctoken, caccepted, cclose, client_entries,
                   subscriptions, creq, reply, inbox, nclient, dispVars>>

\* --------------------------------------------------------- send_command_to_hub
\* A command, with or without the commandId the success log line reads.
Commands == {[commandId |-> TRUE], [commandId |-> FALSE]}

\* A call in progress: the hub id, the command, the socket the lookup gave,
\* and (history) how many registrations had been made at the lookup.
NoRequest ==
    [hub_id |-> None, websocket |-> None, command |-> [commandId |-> FALSE],
     seen |-> 0]

\* A dispatcher that lets the socket's exception reach its caller.
SendFailureRaises(found, sent, command) ==
    IF ~found THEN "False"
    ELSE IF ~sent THEN "raised"
    ELSE IF command.commandId THEN "True" ELSE "False"

\* What send_command_to_hub hands its caller: found, the registry had a
\* session; sent, send_text returned.  Every exception of the try block (the
\* send's, the KeyError of command['commandId']) is caught and gives False.
CommandResult(found, sent, command) ==
    IF ~found THEN "False"
    ELSE IF ~sent THEN "False"
    ELSE IF command.commandId THEN "True" ELSE "False"

\* The call looks the hub up; with no session it returns, else it starts
\* the send on the session's socket.
DispatchStart(t, h, command) ==
    /\ dpc[t] = "idle"
    /\ ncmd < MaxCommands
    /\ ncmd' = ncmd + 1
    /\ IF DictHas(store.hubs, HubKey, h)
       THEN /\ dreq' = [dreq EXCEPT ![t] =
                   [hub_id |-> h, command |-> command,
                    websocket |-> DictGet(store.hubs, HubKey, h).websocket,
                    seen |-> Len(registered)]]
            /\ dpc' = [dpc EXCEPT ![t] = "send"]
            /\ UNCHANGED dresult
       ELSE /\ dresult' = Append(dresult,
                   [hub_id |-> h, websocket |-> None, wrote |-> FALSE,
                    seen |-> Len(registered),
                    result |-> CommandResult(FALSE, FALSE, command)])
            /\ UNCHANGED <<dreq, dpc>>
    /\ UNCHANGED <<storeVars, taskVars, hubVars, clientVars, responses>>

\* The send ends: the envelope is written, or the send raises.
DispatchSent(t) ==
    /\ dpc[t] = "send"
    /\ LET ws == dreq[t].websocket
       IN /\ hub_out' = IF hopen[ws]
                        THEN [hub_out EXCEPT ![ws] = Append(@, "command")]
                        ELSE hub_out
          /\ dresult' = Append(dresult,
                 [hub_id |-> dreq[t].hub_id, websocket |-> ws, wrote |-> hopen[ws],
                  seen |-> dreq[t].seen,
                  result |-> CommandResult(TRUE, hopen[ws], dreq[t].command)])
    /\ dpc' = [dpc EXCEPT ![t] = "idle"]
    /\ dreq' = [dreq EXCEPT ![t] = NoRequest]
    /\ UNCHANGED <<storeVars, taskVars, hpc, hub_id, hopen, handshake,
                   close_code, cur, iter, registered, removed, nhub, clientVars,
                   responses, ncmd>>

\* ------------------------------------------------- the command endpoints
\* api/hubs.py: send_serial_write_command, send_flash_firmware_command,
\* send_restart_device_command and send_close_connection_command, by the
\* commandType each puts in its command.
CommandTypes == {"serial_write", "flash", "restart", "close_connection"}

\* What a call gives its caller.  A command id is a positive number (the
\* uuid of "cmd-{uuid4()}"), 0 where there is none.
TaskStatusResponse(command_id) ==
    [kind |-> "TaskStatusResponse", task_id |-> command_id, status |-> "pending",
     status_code |-> 200]
HTTPException(status_code) ==
    [kind |-> "HTTPException", task_id |-> 0, status |-> None,
     status_code |-> status_code]
\* The function ends without a return statement: it returns None, which is
\* no TaskStatusResponse (the framework fails to serialize it as one).
ReturnsNone ==
    [kind |-> "None", task_id |-> 0, status |-> None, status_code |-> 500]

\* The end of an endpoint, from "if not success": the three first return
\* their TaskStatusResponse after the if; in send_close_connection_command
\* the return statement is inside the if, after the raise.
EndpointReturn(commandType, success, command_id) ==
    IF success # "True" THEN HTTPException(500)
    ELSE IF commandType = "close_connection" THEN ReturnsNone
    ELSE TaskStatusResponse(command_id)

\* An endpoint is called: is_hub_connected, then the command with its new
\* id, then send_command_to_hub up to its send.  The two store calls do not
\* suspend, so the lookup finds the session is_hub_connected saw.
EndpointCall(t, h, commandType) ==
    /\ dpc[t] = "idle"
    /\ ncmd < MaxCommands
    /\ ncmd' = ncmd + 1
    /\ IF DictHas(store.hubs, HubKey, h)
       THEN /\ dreq' = [dreq EXCEPT ![t] =
                   [hub_id |-> h,
                    command |-> [commandId |-> TRUE, commandType |-> commandType,
                                 id |-> ncmd + 1],
                    websocket |-> DictGet(store.hubs, HubKey, h).websocket,
                    seen |-> Len(registered)]]
            /\ dpc' = [dpc EXCEPT ![t] = "endpoint_send"]
            /\ UNCHANGED responses
       ELSE /\ responses' = Append(responses,
                   [hub_id |-> h, commandType |-> commandType, command_id |-> 0,
                    connected |-> FALSE, success |-> None,
                    returned |-> HTTPException(404)])
            /\ UNCHANGED <<dreq, dpc>>
    /\ UNCHANGED <<storeVars, taskVars, hubVars, clientVars, dresult>>

\* The send of send_command_to_hub ends, it returns, and the endpoint ends.
EndpointSent(t) ==
    /\ dpc[t] = "endpoint_send"
    /\ LET ws == dreq[t].websocket
           command == dreq[t].command
           success == CommandResult(TRUE, hopen[ws], command)
       IN /\ hub_out' = IF hopen[ws]
                        THEN [hub_out EXCEPT ![ws] = Append(@, "command")]
                        ELSE hub_out
          /\ dresult' = Append(dresult,
                 [hub_id |-> dreq[t].hub_id, websocket |-> ws, wrote |-> hopen[ws],
                  seen |-> dreq[t].seen, result |-> success])
          /\ responses' = Append(responses,
                 [hub_id |-> dreq[t].hub_id, commandType |-> command.commandType,
                  command_id |-> command.id, connected |-> TRUE,
                  success |-> success,
                  returned |-> EndpointReturn(command.commandType, success,
                                              command.id)])
    /\ dpc' = [dpc EXCEPT ![t] = "idle"]
    /\ dreq' = [dreq EXCEPT ![t] = NoRequest]
    /\ UNCHANGED <<storeVars, taskVars, hpc, hub_id, hopen, handshake,
                   close_code, cur, iter, registered, removed, nhub, clientVars, ncmd>>

\* ------------------------------------------------------------------- Init
\* MemoryStore(max_telemetry_per_hub): every table empty, the lock free.
StoreInit(cap) ==
    /\ max_telemetry_per_hub = cap
    /\ lock = None
    /\ store = EmptyStore

TaskInit ==
    /\ spc = [t \in Senders |-> "idle"]
    /\ sargs = [t \in Senders |-> NoArgs]
    /\ stmp = [t \in Senders |-> <<>>]
    /\ appended = [h \in HubIds |-> <<>>]
    /\ ncalls = 0
    /\ rpc = "idle"
    /\ rargs = None
    /\ rtmp = 0
    /\ stats = NoStats
    /\ nreads = 0
    /\ telemetry_data = NoTelemetryData

\* No connection yet: ClientManager() is empty, every socket is still to
\* connect.
SessionInit ==
    /\ hpc = [c \in Conns |-> "connecting"]
    /\ hub_id = [c \in Conns |-> None]
    /\ hopen = [c \in Conns |-> TRUE]
    /\ handshake = [c \in Conns |-> NoHandshake]
    /\ close_code = [c \in Conns |-> 0]
    /\ cur = [c \in Conns |-> NoFrame]
    /\ iter = [c \in Conns |-> NoIter]
    /\ hub_out = [c \in Conns |-> <<>>]
    /\ registered = <<>>
    /\ removed = <<>>
    /\ nhub = 0
    /\ cpc = [k \in Clients |-> "connecting"]
    /\ copen = [k \in Clients |-> TRUE]
    /\ cstalled = [k \in Clients |-> FALSE]
    /\ ctoken = [k \in Clients |-> NoToken]
    /\ caccepted = [k \in Clients |-> FALSE]
    /\ cclose = [k \in Clients |-> 0]
    /\ client_entries = <<>>
    /\ clients = {}
    /\ subscriptions = [k \in Clients |-> {}]
    /\ creq = [k \in Clients |-> NoControl]
    /\ reply = [k \in Clients |-> <<>>]
    /\ inbox = [k \in Clients |-> NoOutFrame]
    /\ nclient = 0
    /\ dpc = [t \in Dispatchers |-> "idle"]
    /\ dreq = [t \in Dispatchers |-> NoRequest]
    /\ dresult = <<>>
    /\ responses = <<>>
    /\ ncmd = 0

\* The store model: a store of any cap, and the senders.
InitStore ==
    /\ \E cap \in 1..MaxCap : StoreInit(cap)
    /\ TaskInit
    /\ SessionInit

NextStore ==
    \/ \E t \in Senders :
        \/ \E a \in SenderArgs : SenderCall(t, a)
        \/ LockAcquire(t)
        \/ SenderAppend(t)
        \/ SenderSlice(t)
        \/ SenderStore(t)
        \/ LockRelease(t)
    \/ \E h \in HubIds : ReaderCall(h)
    \/ ReaderAcquire
    \/ ReaderSum
    \/ ReaderCount
    \/ ReaderRelease

SpecStore == InitStore /\ [][NextStore]_vars

\* The tables model: whole calls of the store's methods, for both hub ids
\* and under a small cap.
NextTables == \E h \in HubIds : \E call \in StoreCalls : StoreCall(h, call)
SpecTables == InitStore /\ [][NextTables]_vars

\* The read model: telemetry is added for both hub ids under a small cap,
\* read with and without a limit, and the caller changes the list it got.
NextRead ==
    \/ \E h \in HubIds : StoreCall(h, [op |-> "add_telemetry", port_id |-> "P1"])
    \/ \E h \in HubIds : \E limit \in Limits : ReadTelemetry(h, limit)
    \/ CallerMutates
SpecRead == InitStore /\ [][NextRead]_vars

\* The session models: get_store() makes MemoryStore() with the default cap.
Init ==
    /\ StoreInit(DefaultMaxTelemetry)
    /\ TaskInit
    /\ SessionInit

ClientStep(k) ==
    \/ \E token \in ClientTokens : ClientConnect(k, token)
    \/ ClientWelcomeSent(k)
    \/ \E f \in ClientFrames : ClientReceive(k, f)
    \/ ClientReplySent(k)
    \/ ClientTransportClose(k)
    \/ ClientDisconnect(k)

\* The relay models: one hub, handshaken as rpi-bridge-01, streams frames
\* to the clients, which connect, subscribe, unsubscribe and leave.
RelayHandshake ==
    HandshakeFrame("ok", "hub_connect", "rpi-bridge-01",
                   "dev-token-rpi-bridge-01")

RelayNext(frames) ==
    \/ HubAccept("c1")
    \/ HubHandshake("c1", RelayHandshake)
    \/ HubAckSent("c1")
    \/ \E m \in frames : HubReceive("c1", m)
    \/ HubSendDone("c1")
    \/ \E k \in Clients : ClientStep(k)

\* The hub's frames that are scoped to a port.
ScopedFrames == {Telemetry("P1", D10), DeviceEvent("connected", "P2", TRUE)}
Next == RelayNext(ScopedFrames)
Spec == Init /\ [][Next]_vars

\* The hub's frames that are not scoped.
HubWideFrames == {Health(TRUE), TaskStatusFrame("T1", "running")}
NextHubWide == RelayNext(HubWideFrames)
SpecHubWide == Init /\ [][NextHubWide]_vars

\* The ordering model: the hub sends frames of every type that is
\* broadcast, to one client.
OrderFrames ==
    {Telemetry("P1", D10), Health(TRUE), DeviceEvent("connected", "P2", TRUE),
     DeviceEvent("connected", "P2", FALSE), DeviceEvent("disconnected", "P1", FALSE)}
NextOrder ==
    \/ HubAccept("c1")
    \/ HubHandshake("c1", RelayHandshake)
    \/ HubAckSent("c1")
    \/ \E m \in OrderFrames : HubReceive("c1", m)
    \/ HubSendDone("c1")
    \/ ClientStep("k1")
SpecOrder == Init /\ [][NextOrder]_vars

\* The registry model: both sockets run the hub lifecycle with any
\* handshake and any frame; with no client registered, no broadcast has a
\* send to wait for.
HubLifecycle(c, handshakes, frames) ==
    \/ HubAccept(c)
    \/ \E hs \in handshakes : HubHandshake(c, hs)
    \/ HubAckSent(c)
    \/ \E m \in frames : HubReceive(c, m)
    \/ HubTransportClose(c)
    \/ HubDisconnect(c)

RegistryHandshakes == {hs \in Handshakes : hs.type = "hub_connect"}
NextRegistry == \E c \in Conns : HubLifecycle(c, RegistryHandshakes, HubFrames)

SpecRegistry == Init /\ [][NextRegistry]_vars

\* The handshake model: both sockets send any first frame, of whatever
\* type, and then frames of a type no handler knows.
HandshakeFrames == {BaseFrame}
NextHandshake == \E c \in Conns : HubLifecycle(c, Handshakes, HandshakeFrames)

SpecHandshake == Init /\ [][NextHandshake]_vars

\* The dispatch model: both sockets handshake with good tokens, and a
\* dispatcher sends commands to either hub id.
DispatchHandshakes ==
    {hs \in Handshakes : HandshakeAccepted(hs) /\ hs.type = "hub_connect"}
DispatchFrames == {NotJson}

NextDispatch ==
    \/ \E c \in Conns : HubLifecycle(c, DispatchHandshakes, DispatchFrames)
    \/ \E t \in Dispatchers :
          \/ \E h \in HubIds, cmd \in Commands : DispatchStart(t, h, cmd)
          \/ DispatchSent(t)

SpecDispatch == Init /\ [][NextDispatch]_vars

\* The command model: one hub connection comes and goes while the REST
\* layer calls the command endpoints.
NextCommands ==
    \/ HubLifecycle("c1", DispatchHandshakes, DispatchFrames)
    \/ \E t \in Dispatchers :
          \/ \E h \in HubIds, commandType \in CommandTypes :
                EndpointCall(t, h, commandType)
          \/ EndpointSent(t)
SpecCommands == Init /\ [][NextCommands]_vars

\* The liveness model: one hub sends health frames and may drop its
\* transport, while clients connect and may stop reading.  The event loop
\* resumes every task whose await has ended, so each step of a handler
\* that waits for nothing outside the process is taken if it stays
\* possible; nothing obliges a peer to connect, send, close or stall.
LiveFrames == {Health(TRUE)}
LiveToken == "jwt-admin"

NextLive ==
    \/ HubAccept("c1")
    \/ HubHandshake("c1", RelayHandshake)
    \/ HubAckSent("c1")
    \/ \E m \in LiveFrames : HubReceive("c1", m)
    \/ HubSendDone("c1")
    \/ HubTransportClose("c1")
    \/ HubDisconnect("c1")
    \/ \E k \in Clients :
          \/ ClientConnect(k, LiveToken)
          \/ ClientWelcomeSent(k)
          \/ ClientStall(k)

FairLive ==
    /\ WF_vars(HubAckSent("c1"))
    /\ WF_vars(HubSendDone("c1"))
    /\ WF_vars(HubDisconnect("c1"))
    /\ \A k \in Clients : WF_vars(ClientWelcomeSent(k))

SpecLive == Init /\ [][NextLive]_vars /\ FairLive

\* ---------------------------------------------------------------- claims
AllSendersIdle == \A t \in Senders : spc[t] = "idle"

\* C1: whenever no add_telemetry call is inside its critical section, each
\* hub's stored list is exactly the last max_telemetry_per_hub entries ever
\* appended for that hub, in arrival order (all of them while fewer have
\* arrived), so its length never exceeds the cap.
C1_RingBufferKeepsLastCap ==
    lock = None =>
        \A h \in HubIds :
            /\ Len(store.telemetry[h]) <= max_telemetry_per_hub
            /\ store.telemetry[h] = LastN(appended[h], max_telemetry_per_hub)

\* C1 witness: more entries than the cap were appended to one hub and the
\* oldest were evicted.
C1_Witness ==
    /\ lock = None
    /\ \E h \in HubIds :
          /\ Len(appended[h]) > max_telemetry_per_hub
          /\ Len(store.telemetry[h]) = max_telemetry_per_hub
          /\ store.telemetry[h][1] # appended[h][1]

\* C6: once every concurrent add_telemetry call has returned, no entry is
\* lost and none is duplicated: each hub holds min(appends, cap) entries,
\* pairwise distinct, and they are the newest appended ones.
C6_ConcurrentAppendsKeepEveryEntry ==
    AllSendersIdle =>
        \A h \in HubIds :
            /\ Len(store.telemetry[h]) = Min(Len(appended[h]), max_telemetry_per_hub)
            /\ Cardinality(ToSet(store.telemetry[h])) = Len(store.telemetry[h])
            /\ ToSet(store.telemetry[h]) =
                   ToSet(LastN(appended[h], max_telemetry_per_hub))

\* C6 witness: two senders were in add_telemetry for the same hub at once
\* (one holding the lock, one waiting for it).
C6_Witness ==
    \E t1, t2 \in Senders :
        /\ t1 # t2
        /\ spc[t1] \in {"locked", "appended", "sliced"}
        /\ spc[t2] = "acquire"
        /\ sargs[t1].hub_id = sargs[t2].hub_id
        /\ Len(appended[sargs[t1].hub_id]) >= max_telemetry_per_hub


\* The command frames written to a hub's socket, and the finished calls that
\* wrote one to it.
CommandFrames(c) == {i \in 1..Len(hub_out[c]) : hub_out[c][i] = "command"}
CallsThatWrote(c) ==
    {i \in 1..Len(dresult) : dresult[i].wrote /\ dresult[i].websocket = c}

\* C7: every finished send_command_to_hub call handed its caller a boolean,
\* never an exception: False with nothing written to any socket when the
\* registry had no session for the hub, False when the send on the session's
\* socket failed; the only command frames on any socket are those of the
\* calls whose send succeeded.
C7_DispatchNeverRaises ==
    /\ \A i \in 1..Len(dresult) :
          /\ dresult[i].result \in {"True", "False"}
          /\ dresult[i].websocket = None =>
                 ~dresult[i].wrote /\ dresult[i].result = "False"
          /\ ~dresult[i].wrote => dresult[i].result = "False"
    /\ \A c \in Conns : Cardinality(CommandFrames(c)) = Cardinality(CallsThatWrote(c))

\* C7 witness: one call found no session, and another found one whose send
\* failed.
C7_Witness ==
    \E i, j \in 1..Len(dresult) :
        /\ dresult[i].websocket = None
        /\ dresult[j].websocket # None
        /\ ~dresult[j].wrote
        /\ dresult[j].result = "False"

\* The device token of a handshake is bound to the hub id it claims.
TokenBoundToClaim(hs) ==
    /\ hs.kind = "ok"
    /\ [token |-> hs.deviceToken, hub_id |-> hs.hubId] \in ValidDeviceTokens

RegisteredConns == {registered[i][2] : i \in 1..Len(registered)}

\* C8: a connection is registered under hub id H only if its handshake
\* carried a token bound to H and claimed hubId = H; a handshake that fails
\* either check leaves the connection closed (with the policy-violation
\* code when the frame could be decoded) and never registered.
C8_RegisteredOnlyWithBoundToken ==
    /\ \A i \in 1..Len(registered) :
          LET hs == handshake[registered[i][2]]
          IN TokenBoundToClaim(hs) /\ hs.hubId = registered[i][1]
    /\ \A x \in store.hubs : <<x.hub_id, x.websocket>> \in ToSet(registered)
    /\ \A c \in Conns :
          (handshake[c] # NoHandshake /\ ~TokenBoundToClaim(handshake[c])) =>
              /\ hpc[c] = "closed"
              /\ hub_id[c] = None
              /\ c \notin RegisteredConns
              /\ handshake[c].kind # "not_json" =>
                     close_code[c] = WS_1008_POLICY_VIOLATION

\* C8 witness: one connection is registered as rpi-bridge-01, and another,
\* whose token is bound to rpi-bridge-02 but which claimed rpi-bridge-01,
\* was closed.
C8_Witness ==
    \E c1, c2 \in Conns :
        /\ [hub_id |-> "rpi-bridge-01", websocket |-> c1] \in
              {[hub_id |-> x.hub_id, websocket |-> x.websocket] : x \in store.hubs}
        /\ handshake[c2] = HandshakeFrame("ok", "hub_connect", "rpi-bridge-01",
                                          "dev-token-rpi-bridge-02")
        /\ hpc[c2] = "closed"
        /\ close_code[c2] = WS_1008_POLICY_VIOLATION

\* The socket of the last of the first n registrations made for hub id h.
LastRegistered(h, n) ==
    LET idx == {i \in 1..n : registered[i][1] = h}
    IN IF idx = {} THEN None
       ELSE registered[CHOOSE i \in idx : \A j \in idx : j <= i][2]

\* C10: the registry holds at most one session per hub id, and its socket is
\* that of the latest handshake that succeeded for the hub id; a command
\* dispatch writes to the socket the registry held when it looked the hub up,
\* and to no other.
C10_OneSessionPerHubLastWriterWins ==
    /\ \A h \in HubIds : Cardinality({x \in store.hubs : x.hub_id = h}) <= 1
    /\ \A x \in store.hubs : x.websocket = LastRegistered(x.hub_id, Len(registered))
    /\ \A t \in Dispatchers :
          dpc[t] = "send" =>
              dreq[t].websocket = LastRegistered(dreq[t].hub_id, dreq[t].seen)
    /\ \A i \in 1..Len(dresult) :
          dresult[i].wrote =>
              dresult[i].websocket = LastRegistered(dresult[i].hub_id, dresult[i].seen)
    /\ \A c \in Conns : Cardinality(CommandFrames(c)) = Cardinality(CallsThatWrote(c))

\* C10 witness: two connections handshook as the same hub id, the registry
\* holds the second one's socket, and a dispatch made after the second
\* handshake wrote its command there while the first socket was still open.
C10_Witness ==
    /\ Len(registered) = 2
    /\ registered[1][1] = registered[2][1]
    /\ registered[1][2] # registered[2][2]
    /\ \E x \in store.hubs :
          x.hub_id = registered[2][1] /\ x.websocket = registered[2][2]
    /\ hopen[registered[1][2]]
    /\ CommandFrames(registered[1][2]) = {}
    /\ \E i \in 1..Len(dresult) :
          /\ dresult[i].seen = 2
          /\ dresult[i].wrote
          /\ dresult[i].websocket = registered[2][2]


\* The broadcast of the frame a hub connection routed last has ended: its
\* loop ran to the end, or the dict iterator raised.
BroadcastEnded(c) == iter[c].outcome \in {"done", "aborted"}
Received(c) == ToSet(iter[c].delivered)
TimesReceived(c, j) ==
    Cardinality({i \in 1..Len(iter[c].delivered) : iter[c].delivered[i] = j})

\* C2: when the broadcast of a telemetry or device_event frame for (H, P)
\* has ended, a registered client has received it if and only if (H, P) was
\* in its subscription set while the broadcast ran: every client subscribed
\* and registered all along has it, and no client that was never subscribed
\* during the broadcast has it.
C2_ScopedFrameReachesExactlySubscribers ==
    \A c \in Conns :
        (Scoped(cur[c]) /\ BroadcastEnded(c)) =>
            /\ iter[c].audience \subseteq Received(c)
            /\ Received(c) \subseteq iter[c].eligible

\* C3: when the broadcast of a valid health frame has ended, every client
\* registered all along has received it, whatever it subscribed to.
C3_HealthReachesEveryClient ==
    \A c \in Conns :
        (/\ cur[c].type = "health"
         /\ cur[c].fields_ok
         /\ cur[c].metrics_ok
         /\ BroadcastEnded(c)) =>
            iter[c].audience \subseteq Received(c)

\* C4: once a valid task_status frame has been handled, the task's record
\* holds the status it reported and every registered client has received
\* the update.
C4_TaskStatusStoredAndBroadcast ==
    \A c \in Conns :
        (cur[c].type = "task_status" /\ cur[c].fields_ok /\ hpc[c] = "recv") =>
            /\ \E x \in store.task_status :
                  /\ x.hub_id = hub_id[c]
                  /\ x.task_id = cur[c].taskId
                  /\ x.status = cur[c].status
            /\ iter[c].audience \subseteq Received(c)

\* The (hub, port) pairs a confirmation lists.
Confirmed(k) == {<<reply[k][i].hubId, reply[k][i].portId>> : i \in 1..Len(reply[k])}
AnsweringUnsubscribe(k) == cpc[k] = "reply" /\ creq[k].frame.type = "unsubscribe"

C9_TelemetryOncePerSubscriberWithSize ==
    \A c \in Conns :
        (cur[c].type = "telemetry" /\ cur[c].fields_ok /\ BroadcastEnded(c)) =>
            LET stored == store.telemetry[hub_id[c]]
            IN /\ \A j \in iter[c].audience : TimesReceived(c, j) = 1
               /\ \A j \in Received(c) : TimesReceived(c, j) = 1
               /\ iter[c].message.type = "telemetry_stream"
               /\ iter[c].message.dataSizeBytes = 10
               /\ stored # <<>>
               /\ stored[Len(stored)].data_size_bytes = iter[c].message.dataSizeBytes


\* The clean-ups a hub connection has run that called remove_hub_connection.
Removals(c) == {i \in 1..Len(removed) : removed[i].conn = c}

\* C11: a hub connection that registered calls remove_hub_connection exactly
\* once, when it closes and not before; once it is closed, no registry entry
\* holds its socket.
C11_CleanupDeregistersOnce ==
    \A c \in RegisteredConns :
        /\ hpc[c] # "closed" => Removals(c) = {}
        /\ hpc[c] = "closed" =>
               /\ Cardinality(Removals(c)) = 1
               /\ \A x \in store.hubs : x.websocket # c

\* C11 witness: a registered connection's transport closed, its clean-up ran
\* and removed the entry that held its socket.
C11_Witness ==
    \E c \in RegisteredConns :
        /\ hpc[c] = "closed"
        /\ cur[c] = NoFrame
        /\ \E i \in Removals(c) : removed[i].evicted = c


\* C12: when a send of a broadcast has raised, the broadcast still runs to
\* its end: every other matching client that stayed registered has received
\* the frame, and the clients whose send raised are out of the registry.
C12_FailedSendLeavesBroadcastWhole ==
    \A c \in Conns :
        (BroadcastEnded(c) /\ iter[c].disconnected # <<>>) =>
            /\ iter[c].outcome = "done"
            /\ iter[c].audience \subseteq Received(c)
            /\ ToSet(iter[c].disconnected) \cap clients = {}


\* The tasks that are inside a send on a client's socket: the client's own
\* handler (welcome, subscription_status) and the hub handlers whose
\* broadcast is sending to it.
ClientSocketWriters(k) ==
    {"handler" : x \in {k} \cap {y \in Clients : cpc[y] \in {"welcome", "reply"}}}
    \cup {c \in Conns : hpc[c] = "bsend" /\ client_entries[iter[c].pos] = k}

\* The tasks that are inside a send on a hub's socket: the hub's own handler
\* (acknowledgment) and the dispatchers sending a command to it.
HubSocketWriters(c) ==
    {"handler" : x \in {c} \cap {y \in Conns : hpc[y] = "ack"}}
    \cup {t \in Dispatchers : dpc[t] = "send" /\ dreq[t].websocket = c}

\* C13: at any moment at most one task is inside a send on a given client
\* socket, and at most one on a given hub socket.
C13_OneWriterPerSocket ==
    /\ \A k \in Clients : Cardinality(ClientSocketWriters(k)) <= 1
    /\ \A c \in Conns : Cardinality(HubSocketWriters(c)) <= 1


\* C14: the dict get_telemetry_stats is about to return describes the hub's
\* buffer as it stands, and the buffer is not in the middle of an append or
\* an eviction: count is its length, total_bytes the sum over exactly those
\* entries, and the buffer is the last max_telemetry_per_hub appended.
C14_StatsDescribeOneBufferState ==
    rpc = "release" =>
        LET buffer == store.telemetry[rargs]
        IN /\ stats.count = Len(buffer)
           /\ stats.total_bytes = TotalBytes(buffer)
           /\ buffer = LastN(appended[rargs], max_telemetry_per_hub)
           /\ \A t \in Senders : spc[t] \in {"idle", "acquire"}

\* C14 witness: the statistics of a buffer that has evicted entries are
\* being returned while a sender waits for the lock.
C14_Witness ==
    /\ rpc = "release"
    /\ Len(appended[rargs]) > max_telemetry_per_hub
    /\ stats.count = max_telemetry_per_hub
    /\ stats.total_bytes > 0
    /\ \E t \in Senders : spc[t] = "acquire" /\ sargs[t].hub_id = rargs


AnsweringSubscribe(k) == cpc[k] = "reply" /\ creq[k].frame.type = "subscribe"

\* C15: after a subscribe request the client's set is what it held before
\* plus every request entry that carries both hubId and portId, and the
\* confirmation lists exactly that whole set, one item per pair, each
\* active.
C15_SubscribeConfirmsWholeSet ==
    \A k \in Clients :
        AnsweringSubscribe(k) =>
            LET named == NamedPairs(creq[k].frame.subscriptions)
            IN /\ named \subseteq subscriptions[k]
               /\ creq[k].before \subseteq subscriptions[k]
               /\ subscriptions[k] \subseteq creq[k].before \cup named
               /\ Confirmed(k) = subscriptions[k]
               /\ Len(reply[k]) = Cardinality(subscriptions[k])
               /\ \A i \in 1..Len(reply[k]) : reply[k][i].status = "active"

\* C15 witness: a client that held a pair is being answered a subscribe
\* that added another pair and had an entry without a portId.
C15_Witness ==
    \E k \in Clients :
        /\ AnsweringSubscribe(k)
        /\ creq[k].before # {}
        /\ subscriptions[k] # creq[k].before
        /\ \E i \in 1..Len(creq[k].frame.subscriptions) :
              ~Named(creq[k].frame.subscriptions[i])
        /\ Len(reply[k]) = 2

FailedVerification(k) ==
    /\ ctoken[k] # NoToken
    /\ get_current_user_ws(ctoken[k]) \in {None, Raised}
EverRegistered(k) == \E i \in 1..Len(client_entries) : client_entries[i] = k

\* C16: a client connection whose bearer token the verifier gave no
\* principal for, or raised on, is closed with the policy-violation code,
\* is never accepted, never enters the client registry, and nothing (no
\* welcome, no broadcast frame) is ever written to its socket.
C16_FailedTokenClosedUnregistered ==
    \A k \in Clients :
        FailedVerification(k) =>
            /\ cclose[k] = WS_1008_POLICY_VIOLATION
            /\ ~caccepted[k]
            /\ ~EverRegistered(k)
            /\ cpc[k] = "closed"
            /\ inbox[k] = NoOutFrame

\* C16 witness: the verifier raised for one client, which was closed with
\* the policy-violation code, and a broadcast has ended that reached the
\* other client only.
C16_Witness ==
    \E k \in Clients, c \in Conns :
        /\ get_current_user_ws(ctoken[k]) = Raised
        /\ cclose[k] = WS_1008_POLICY_VIOLATION
        /\ iter[c].outcome = "done"
        /\ Len(iter[c].delivered) = 1
        /\ \E j \in Clients \ {k} : inbox[j] = iter[c].message

\* The frame parses as JSON but is of no known type, or its model rejects
\* its fields, or its telemetry data does not decode.
Dropped(m) ==
    /\ m.json
    /\ \/ m.type \notin {"telemetry", "health", "device_event", "task_status"}
       \/ ~m.fields_ok
       \/ m.type = "telemetry" /\ B64DecodedLen(m.data) < 0
EventStore(s) ==
    <<s.telemetry, s.health, s.device_events, s.ports, s.connections,
      s.task_status>>
IsRegistered(s, h) == DictHas(s.hubs, HubKey, h)

\* C17: when the message loop of an active hub connection receives a frame
\* of unknown type, or of a known type whose fields do not decode, no event
\* table changes, no broadcast starts and no client is written to, the
\* handler stays in its loop with the hub's registration as it was; and a
\* valid frame received right after a dropped one has the store effect and
\* the broadcast of its handler.
C17_BadFrameDroppedLoopContinues ==
    [][\A c \in Conns, m \in HubFrames :
          HubReceive(c, m) =>
              /\ Dropped(m) =>
                    /\ EventStore(store') = EventStore(store)
                    /\ iter'[c].outcome = "none"
                    /\ inbox' = inbox
                    /\ clients' = clients
                    /\ hpc'[c] = "recv"
                    /\ hopen'[c]
                    /\ IsRegistered(store', hub_id[c]) = IsRegistered(store, hub_id[c])
              /\ (Dropped(cur[c]) /\ ~Dropped(m) /\ m.json) =>
                    /\ EventStore(store') =
                          EventStore(route_hub_message(store, hub_id[c], m,
                                                       max_telemetry_per_hub))
                    /\ hpc'[c] \in {"recv", "bsend"}
                    /\ m.type = "task_status" =>
                          DictHas(store'.task_status, TaskKey,
                                  <<hub_id[c], m.taskId>>)
                    /\ (m.type = "telemetry" /\ max_telemetry_per_hub > 0) =>
                          /\ Len(store'.telemetry[hub_id[c]]) > 0
                          /\ store'.telemetry[hub_id[c]]
                                [Len(store'.telemetry[hub_id[c]])].data = m.data]_vars

\* C17 witness: the only connection that got past its handshake has
\* received two frames; the second, a telemetry frame, is in the buffer, and
\* nothing else is in any event table but what that one frame put there, so
\* the first frame was dropped; the hub is still registered.
C17_Witness ==
    /\ nhub = 2
    /\ hpc["c1"] = "recv"
    /\ handshake["c2"] = NoHandshake
    /\ cur["c1"] = Telemetry("P1", D10)
    /\ Len(store.telemetry[hub_id["c1"]]) = 1
    /\ Len(store.device_events[hub_id["c1"]]) = 1
    /\ store.health = {}
    /\ store.task_status = {}
    /\ IsRegistered(store, hub_id["c1"])

\* The broadcast of connection c awaits a send to a client that has
\* stopped reading.
PendingOnStalled(c) ==
    /\ hpc[c] = "bsend"
    /\ cstalled[client_entries[iter[c].pos]]
Reachable(j) ==
    /\ j \in 1..Len(client_entries)
    /\ copen[client_entries[j]]
    /\ ~cstalled[client_entries[j]]

\* C18: while the send of a broadcast to one matching client does not
\* end, every other matching client that is registered and reading still
\* eventually receives the message.
C18_StalledSendDoesNotDelayOthers ==
    \A c \in Conns, j \in 1..Cardinality(Clients) :
        (/\ PendingOnStalled(c)
         /\ j \in iter[c].audience
         /\ j \in clients
         /\ j # iter[c].pos
         /\ Reachable(j))
            ~> (j \in Received(c) \/ ~Reachable(j) \/ j \notin clients)

\* C19: while a send to a stalled client is pending in the broadcast a
\* hub's frame started, that hub's handler still gets back to its receive
\* loop for the hub's next frames.
C19_HubLoopNotHeldByClientSend ==
    \A c \in Conns :
        (PendingOnStalled(c) /\ hopen[c]) ~> (hpc[c] = "recv" \/ ~hopen[c])

\* C20: after the transport of a registered hub connection has closed, its
\* handler eventually reaches the end of its cleanup and the session it
\* registered is no longer in the registry.
C20_ClosedHubEventuallyDeregistered ==
    \A c \in Conns :
        (hub_id[c] # None /\ hpc[c] \in {"ack", "recv", "bsend"} /\ ~hopen[c])
            ~> (hpc[c] = "closed" /\ ~IsRegistered(store, hub_id[c]))

\* C21: while a broadcast is suspended in its iteration of the client
\* registry (from one of its sends to the next), no step changes the set
\* of registered clients; the broadcast's own removals happen in the step
\* that ends its iteration.
C21_RegistryFixedDuringIteration ==
    [][\A c \in Conns :
          (hpc[c] = "bsend" /\ hpc'[c] = "bsend") => clients' = clients]_vars

\* The handler of c is past its handshake and in its message loop, its
\* transport open.
Active(c) == hpc[c] \in {"recv", "bsend"} /\ hopen[c]

\* C22: a connection that is active and whose handshake was the latest to
\* succeed for its hub id, after another connection's for the same id, has
\* the hub id's registry entry, whatever has happened to the earlier
\* connection.
C22_ReplacedConnectionCloseKeepsEntry ==
    \A c \in Conns :
        (/\ Active(c)
         /\ LastRegistered(hub_id[c], Len(registered)) = c
         /\ \E i \in 1..Len(registered) :
               registered[i][1] = hub_id[c] /\ registered[i][2] # c)
            => /\ IsRegistered(store, hub_id[c])
               /\ DictGet(store.hubs, HubKey, hub_id[c]).websocket = c

HasConnection(s, h, p) == DictHas(s.connections, PortKey, <<h, p>>)
Connection(s, h, p) == DictGet(s.connections, PortKey, <<h, p>>)
ValidTelemetry(m) ==
    m.json /\ m.type = "telemetry" /\ m.fields_ok /\ B64DecodedLen(m.data) >= 0

\* The decoded sizes of the buffered telemetry entries of port p, summed.
RECURSIVE PortBytes(_, _)
PortBytes(xs, p) ==
    IF xs = <<>> THEN 0
    ELSE (IF Head(xs).port_id = p THEN Head(xs).data_size_bytes ELSE 0)
         + PortBytes(Tail(xs), p)
DeviceEventsOf(s, h, p) ==
    {i \in 1..Len(s.device_events[h]) : s.device_events[h][i].port_id = p}

\* C23: each valid telemetry frame handled for (H, P), on whichever
\* connection of H, leaves a connection record whose bytes_read is the
\* record's former bytes_read (0 when it had none) plus the frame's decoded
\* size, and whose connected_at is the former record's; so while no device
\* event came for (H, P), bytes_read is the sum of the decoded sizes of all
\* its telemetry.
C23_TelemetryAccumulatesBytesRead ==
    /\ [][\A c \in Conns, m \in HubFrames :
            (HubReceive(c, m) /\ ValidTelemetry(m)) =>
                LET h == hub_id[c]
                    p == m.portId
                IN /\ HasConnection(store', h, p)
                   /\ Connection(store', h, p).bytes_read =
                         (IF HasConnection(store, h, p)
                          THEN Connection(store, h, p).bytes_read ELSE 0)
                         + B64DecodedLen(m.data)
                   /\ HasConnection(store, h, p) =>
                         Connection(store', h, p).connected_at =
                            Connection(store, h, p).connected_at]_vars
    /\ [](\A h \in HubIds, p \in Ports :
            (HasConnection(store, h, p)
             /\ Cardinality(DeviceEventsOf(store, h, p)) <= 1) =>
                Connection(store, h, p).bytes_read =
                    PortBytes(store.telemetry[h], p))

\* C23 witness: two connections of the same hub id have each had a
\* telemetry frame for P1 handled, and the record of P1 has the bytes of
\* both and the connect time of the first.
C23_Witness ==
    /\ hub_id["c1"] = hub_id["c2"]
    /\ cur["c1"] = Telemetry("P1", D10)
    /\ cur["c2"] = Telemetry("P1", D10)
    /\ HasConnection(store, hub_id["c1"], "P1")
    /\ Connection(store, hub_id["c1"], "P1").bytes_read =
          2 * B64DecodedLen(D10)
    /\ Connection(store, hub_id["c1"], "P1").connected_at = 1
    /\ store.clock = 2

ValidDeviceEvent(m) == m.json /\ m.type = "device_event" /\ m.fields_ok
HasPort(s, h, p) == DictHas(s.ports, PortKey, <<h, p>>)

\* C24: when a valid device_event frame has been handled, with or without
\* deviceInfo, then for eventType "connected" the store has a port record
\* and a connection record of the frame's (H, P), and for "disconnected"
\* it has no connection record of (H, P).
C24_DeviceEventSetsRecords ==
    [][\A c \in Conns, m \in HubFrames :
          (HubReceive(c, m) /\ ValidDeviceEvent(m)) =>
              /\ m.eventType = "connected" =>
                    /\ HasPort(store', hub_id[c], m.portId)
                    /\ HasConnection(store', hub_id[c], m.portId)
              /\ m.eventType = "disconnected" =>
                    ~HasConnection(store', hub_id[c], m.portId)]_vars

Malformed(hs) == hs.kind \in {"missing_fields", "not_json"}

\* C25: a connection whose first frame did not decode as a handshake is
\* closed, was never registered, and was closed by the handler with a code
\* of its own, which is not the policy-violation code of the
\* authentication failures.
C25_MalformedHandshakeOwnCloseCode ==
    \A c \in Conns :
        Malformed(handshake[c]) =>
            /\ hpc[c] = "closed"
            /\ c \notin RegisteredConns
            /\ close_code[c] # 0
            /\ close_code[c] # WS_1008_POLICY_VIOLATION

\* CONNECTING, AWAITING_HANDSHAKE, AUTHENTICATED (registered, the
\* acknowledgment on its way), ACTIVE, CLOSED
Stage(pc) ==
    CASE pc = "connecting" -> 0
      [] pc = "handshake" -> 1
      [] pc = "ack" -> 2
      [] pc \in {"recv", "bsend"} -> 3
      [] pc = "closed" -> 4
HandshakeSucceeded(c) ==
    /\ TokenBoundToClaim(handshake[c])
    /\ hub_id[c] = handshake[c].hubId
    /\ c \in RegisteredConns

\* C26: a hub connection's handler only moves forward, one stage at a time
\* or straight to CLOSED; it is in its message loop, has routed a frame or
\* runs a broadcast only after its handshake succeeded and its session was
\* registered; and once it is CLOSED it routes nothing more.
C26_HubStagesOnlyForward ==
    /\ [][\A c \in Conns :
            /\ Stage(hpc'[c]) >= Stage(hpc[c])
            /\ Stage(hpc'[c]) \in {Stage(hpc[c]), Stage(hpc[c]) + 1, 4}
            /\ hpc[c] = "closed" => (cur'[c] = cur[c] /\ iter'[c] = iter[c])
            /\ \A m \in HubFrames : HubReceive(c, m) => HandshakeSucceeded(c)]_vars
    /\ [](\A c \in Conns :
            (Stage(hpc[c]) \in {2, 3} \/ cur[c] # NoFrame
                \/ iter[c].outcome # "none") => HandshakeSucceeded(c))

\* C26 witness: one connection is CLOSED after its handshake succeeded and a
\* telemetry frame of it was stored; the other is CLOSED after a handshake
\* with an unknown token, with no frame routed.
C26_Witness ==
    \E c, d \in Conns :
        /\ hpc[c] = "closed" /\ hpc[d] = "closed"
        /\ HandshakeSucceeded(c)
        /\ cur[c] = Telemetry("P1", D10)
        /\ Len(store.telemetry[hub_id[c]]) = 1
        /\ handshake[d].deviceToken = "bogus"
        /\ cur[d] = NoFrame

\* C27: every connection that was registered had a first frame whose type
\* was "hub_connect".
C27_OnlyHubConnectRegisters ==
    \A i \in 1..Len(registered) :
        handshake[registered[i][2]].type = "hub_connect"

HubEntry(s, h) == DictGet(s.hubs, HubKey, h)

\* C28: every frame that parses, received in the message loop of a hub
\* connection, leaves the registry entry of the connection's hub id with
\* last_seen set to the time of the receipt, which is not later than the
\* time of anything the frame's handler stores; and no step moves the
\* last_seen of an entry backwards.
C28_EveryFrameRefreshesLastSeen ==
    [][/\ \A c \in Conns, m \in HubFrames :
             (HubReceive(c, m) /\ m.json) =>
                 /\ IsRegistered(store', hub_id[c])
                 /\ HubEntry(store', hub_id[c]).last_seen = store.clock
                 /\ HubEntry(store', hub_id[c]).last_seen <= store'.clock
       /\ \A h \in HubIds :
             (IsRegistered(store, h) /\ IsRegistered(store', h)) =>
                 HubEntry(store', h).last_seen >= HubEntry(store, h).last_seen]_vars

ClientEnds(k) == cpc[k] # "closed" /\ cpc'[k] = "closed"
Pruned(k) ==
    \E c \in Conns :
        iter[c].outcome = "done" /\ ConnId(k) \in ToSet(iter[c].disconnected)

\* C30: the step that ends the handler of a registered client takes the
\* client's own id out of the registry and no other; when the id is
\* already gone (a broadcast pruned it) the registry stays as it is; and
\* the id of a client whose handler has ended is not in the registry.
C30_RemoveClientIdempotent ==
    /\ [][\A k \in Clients :
            (ClientEnds(k) /\ EverRegistered(k)) =>
                /\ clients' = clients \ {ConnId(k)}
                /\ ConnId(k) \notin clients => clients' = clients]_vars
    /\ [](\A k \in Clients :
            (cpc[k] = "closed" /\ EverRegistered(k)) => ConnId(k) \notin clients)

\* C30 witness: a broadcast that has ended pruned a client whose send had
\* raised; that client's handler has since ended, and the other client is
\* still registered.
C30_Witness ==
    \E k \in Clients :
        /\ EverRegistered(k)
        /\ Pruned(k)
        /\ cpc[k] = "closed"
        /\ \E j \in Clients \ {k} : EverRegistered(j) /\ ConnId(j) \in clients

\* C31: the subscription set of a client changes only in a step in which
\* that client's own handler, in its message loop, receives a subscribe or
\* unsubscribe frame and starts answering it, and that step changes no
\* other client's set: no other client's frame, no hub frame, no broadcast
\* send and no removal changes it.
C31_SubscriptionsChangedByOwnerOnly ==
    [][\A k \in Clients :
          subscriptions'[k] # subscriptions[k] =>
              /\ cpc[k] = "recv" /\ cpc'[k] = "reply"
              /\ nclient' = nclient + 1
              /\ creq'[k].frame \in ClientFrames
              /\ creq'[k].frame.type \in {"subscribe", "unsubscribe"}
              /\ creq'[k].before = subscriptions[k]
              /\ \A j \in Clients \ {k} : subscriptions'[j] = subscriptions[j]]_vars

\* C31 witness: one client is being answered a subscribe that gave it a
\* pair, a broadcast has ended with a send that raised, and the
\* other client, still registered, holds a different set.
C31_Witness ==
    \E k, j \in Clients :
        /\ k # j
        /\ AnsweringSubscribe(k)
        /\ subscriptions[k] # {}
        /\ EverRegistered(j)
        /\ ConnId(j) \in clients
        /\ subscriptions[j] # subscriptions[k]
        /\ \E c \in Conns : iter[c].outcome = "done" /\ iter[c].disconnected # <<>>

\* The store holds what the handler of frame m, received for hub id h,
\* writes: the telemetry entry and the connection record, the health
\* snapshot, or the device event with the port and connection records as
\* the event leaves them.
Applied(s, h, m) ==
    CASE m.type = "telemetry" ->
            /\ \E i \in 1..Len(s.telemetry[h]) :
                  /\ s.telemetry[h][i].port_id = m.portId
                  /\ s.telemetry[h][i].data = m.data
            /\ HasConnection(s, h, m.portId)
      [] m.type = "health" -> DictHas(s.health, HubKey, h)
      [] m.type = "device_event" ->
            /\ \E i \in 1..Len(s.device_events[h]) :
                  /\ s.device_events[h][i].port_id = m.portId
                  /\ s.device_events[h][i].event_type = m.eventType
            /\ (m.eventType = "connected" /\ m.deviceInfo) =>
                  HasPort(s, h, m.portId) /\ HasConnection(s, h, m.portId)
            /\ m.eventType = "disconnected" => ~HasConnection(s, h, m.portId)
      [] OTHER -> TRUE

\* C32: from the first send of a frame's broadcast on, the store holds what
\* the frame's handler writes: while the handler is in a send, and whenever
\* the frame is in a client's socket, the mutation is applied; and no send
\* of a broadcast changes the store.
C32_StoreUpdatedBeforeBroadcast ==
    /\ [](\A c \in Conns :
            (hpc[c] = "bsend" \/ iter[c].delivered # <<>>) =>
                Applied(store, hub_id[c], cur[c]))
    /\ [][\A c \in Conns :
            (hpc[c] = "bsend" /\ iter'[c] # iter[c]) => store' = store]_vars

\* C32 witness: a telemetry_stream frame is in the client's socket, written
\* by a broadcast that has ended, and the entry and its connection record
\* are in the store.
C32_Witness ==
    /\ iter["c1"].outcome = "done"
    /\ iter["c1"].delivered # <<>>
    /\ inbox["k1"] = iter["c1"].message
    /\ inbox["k1"].type = "telemetry_stream"
    /\ Applied(store, hub_id["c1"], cur["c1"])
    /\ Len(store.telemetry[hub_id["c1"]]) = 1

\* The step in which connection c's first frame arrives and fails: it does
\* not decode as a handshake, or its token is not bound to the hub id it
\* claims (unknown token or mismatch).
HandshakeFails(c) ==
    /\ handshake[c] = NoHandshake
    /\ handshake'[c] # NoHandshake
    /\ Malformed(handshake'[c]) \/ ~TokenBoundToClaim(handshake'[c])

\* C33: a handshake that fails while a session is registered for the hub id
\* it claims leaves that session registered with the same socket (the whole
\* registry is as it was); the failed connection is closed without a hub id
\* and no cleanup of it ever removes a registration.
C33_FailedHandshakeKeepsSession ==
    /\ [][\A c \in Conns :
            HandshakeFails(c) =>
                /\ store'.hubs = store.hubs
                /\ LET H == handshake'[c].hubId
                   IN IsRegistered(store, H) =>
                          /\ IsRegistered(store', H)
                          /\ HubEntry(store', H).websocket =
                                 HubEntry(store, H).websocket
                /\ hpc'[c] = "closed"
                /\ hub_id'[c] = None]_vars
    /\ [](\A c \in Conns :
            (handshake[c] # NoHandshake
                /\ (Malformed(handshake[c]) \/ ~TokenBoundToClaim(handshake[c]))) =>
                /\ hub_id[c] = None
                /\ c \notin RegisteredConns
                /\ \A i \in 1..Len(removed) : removed[i].conn # c)

\* C33 witness: c2 claimed rpi-bridge-01 with a token not bound to it and is
\* closed, and the registry holds rpi-bridge-01 with the socket of c1, whose
\* handler is in its message loop.
C33_Witness ==
    /\ hpc["c2"] = "closed"
    /\ handshake["c2"].kind = "ok"
    /\ handshake["c2"].hubId = "rpi-bridge-01"
    /\ ~TokenBoundToClaim(handshake["c2"])
    /\ hpc["c1"] = "recv"
    /\ nhub > 0
    /\ IsRegistered(store, "rpi-bridge-01")
    /\ HubEntry(store, "rpi-bridge-01").websocket = "c1"

\* Everything the store holds for hub id h.
HubData(s, h) ==
    [hubs |-> {x \in s.hubs : x.hub_id = h},
     telemetry |-> s.telemetry[h],
     health |-> {x \in s.health : x.hub_id = h},
     device_events |-> s.device_events[h],
     ports |-> {x \in s.ports : x.hub_id = h},
     connections |-> {x \in s.connections : x.hub_id = h},
     task_status |-> {x \in s.task_status : x.hub_id = h}]

\* C34: a frame received on a connection authenticated as H1 is attributed
\* to H1 whatever hub id the frame itself claims: what its handler stores
\* is stored for H1, the message its broadcast carries names H1, and the
\* data of every other hub id is as it was.
C34_AttributedToAuthenticatedHub ==
    [][\A c \in Conns : \A m \in HubFrames :
          (HubReceive(c, m) /\ m.json) =>
              /\ \A h \in HubIds \ {hub_id[c]} :
                    HubData(store', h) = HubData(store, h)
              /\ Handled(m) => Applied(store', hub_id[c], m)
              /\ (Handled(m) /\ m.type = "task_status") =>
                    DictHas(store'.task_status, TaskKey, <<hub_id[c], m.taskId>>)
              /\ Broadcasts(m) => iter'[c].message.hubId = hub_id[c]]_vars

\* C34 witness: c2, authenticated as rpi-bridge-02, has routed a telemetry
\* frame that claims rpi-bridge-01; the entry is under rpi-bridge-02, the
\* message of the broadcast names rpi-bridge-02, and rpi-bridge-01 has no
\* telemetry and no connection record.
C34_Witness ==
    /\ hub_id["c2"] = "rpi-bridge-02"
    /\ cur["c2"].type = "telemetry"
    /\ Handled(cur["c2"])
    /\ cur["c2"].hubId = "rpi-bridge-01"
    /\ Applied(store, "rpi-bridge-02", cur["c2"])
    /\ iter["c2"].message.hubId = "rpi-bridge-02"
    /\ HubData(store, "rpi-bridge-01").telemetry = <<>>
    /\ HubData(store, "rpi-bridge-01").connections = {}

BroadcastTypes == {"telemetry_stream", "health", "device_event"}

\* C35: the frames of one hub connection reach a client in the order the
\* connection sent them: every broadcast frame written to a client is the
\* message of the frame its connection received last, written by the send
\* that connection's handler is waiting in; and while a send of a frame's
\* broadcast is pending the connection receives no next frame, so every
\* write of m1's broadcast comes before m2 is received and every write of
\* m2's broadcast after.
C35_DeliveredInSendOrder ==
    /\ [][\A k \in Clients :
            (inbox'[k] # inbox[k] /\ inbox'[k].type \in BroadcastTypes) =>
                \E c \in Conns :
                    /\ hpc[c] = "bsend"
                    /\ client_entries[iter[c].pos] = k
                    /\ inbox'[k] = ClientMessage(hub_id[c], cur[c])
                    /\ Len(iter'[c].delivered) = Len(iter[c].delivered) + 1]_vars
    /\ [][\A c \in Conns :
            hpc[c] = "bsend" =>
                /\ cur'[c] = cur[c]
                /\ iter'[c].message = iter[c].message
                /\ nhub' = nhub
                /\ hpc'[c] \in {"bsend", "recv"}]_vars
    /\ [](\A c \in Conns :
            hpc[c] = "bsend" =>
                iter[c].message = ClientMessage(hub_id[c], cur[c]))

\* C35 witness: the connection has sent two frames; the message of the
\* first is in the client's socket and the send of the second, a different
\* message, to the same client is pending.
C35_Witness ==
    /\ nhub = 2
    /\ hpc["c1"] = "bsend"
    /\ client_entries[iter["c1"].pos] = "k1"
    /\ inbox["k1"].type \in BroadcastTypes
    /\ inbox["k1"] # iter["c1"].message
    /\ iter["c1"].message.type = "telemetry_stream"

\* C36: in every state another task can observe, a connection record for
\* (H, P) comes with a port record for (H, P).
C36_ConnectionHasPortRecord ==
    \A h \in HubIds : \A p \in Ports :
        HasConnection(store, h, p) => HasPort(store, h, p)

\* C36 witness: telemetry for a port with no records has created the
\* connection record of (rpi-bridge-01, P2) and, through the device event
\* it adds, the port record; P1 has no port record.
C36_Witness ==
    /\ HasConnection(store, "rpi-bridge-01", "P2")
    /\ HasPort(store, "rpi-bridge-01", "P2")
    /\ store.telemetry["rpi-bridge-01"] # <<>>
    /\ \E c \in Conns : cur[c] = Telemetry("P2", D3) /\ nhub = 1
    /\ ~HasPort(store, "rpi-bridge-01", "P1")

\* C37: a call of a store method for hub id H (add_telemetry, update_health,
\* add_device_event, update_connection, remove_connection,
\* update_task_status, and the registry's add, remove and last-seen update)
\* leaves everything stored for every other hub id as it was; an
\* add_telemetry that cuts H's list to the cap cuts no other list.
C37_OtherHubsUntouched ==
    [][\A h \in HubIds : \A call \in StoreCalls :
          StoreCall(h, call) =>
              \A g \in HubIds \ {h} : HubData(store', g) = HubData(store, g)]_vars

\* C37 witness: rpi-bridge-01 has appended past the cap, so its list was
\* cut, and rpi-bridge-02 still holds the entry it stored before.
C37_Witness ==
    /\ ncalls >= 3
    /\ Len(store.telemetry["rpi-bridge-01"]) = max_telemetry_per_hub
    /\ store.telemetry["rpi-bridge-01"][1].timestamp > 1
    /\ Len(store.telemetry["rpi-bridge-02"]) = 1
    /\ store.telemetry["rpi-bridge-02"][1].timestamp = 0

\* C38: get_telemetry(hub, limit) with limit >= 1 returns the last
\* min(limit, count) entries stored for the hub, and with no limit all of
\* them, in the order they arrived (of increasing time); the call leaves
\* the store as it was, and so does a change the caller makes to the list
\* it was given.
C38_GetTelemetryReturnsRecentCopy ==
    /\ [][\A h \in HubIds : \A limit \in Limits :
            ReadTelemetry(h, limit) =>
                LET buf == store.telemetry[h]
                    n == Len(buf)
                    k == IF limit = NoLimit THEN n ELSE Min(limit, n)
                    got == telemetry_data'.entries
                IN /\ got = [i \in 1..k |-> buf[n - k + i]]
                   /\ \A i, j \in 1..Len(got) :
                         i < j => got[i].timestamp < got[j].timestamp
                   /\ store' = store]_vars
    /\ [][CallerMutates => store' = store]_vars

\* C38 witness: a read with limit 1 of a hub that has two entries returned
\* the later one alone.
C38_Witness ==
    /\ telemetry_data.hub_id = "rpi-bridge-01"
    /\ telemetry_data.limit = 1
    /\ Len(store.telemetry["rpi-bridge-01"]) = 2
    /\ telemetry_data.entries = <<store.telemetry["rpi-bridge-01"][2]>>
    /\ store.telemetry["rpi-bridge-01"][1].timestamp
          < store.telemetry["rpi-bridge-01"][2].timestamp

\* C39: every call of a command endpoint (serial_write, flash, restart,
\* close_connection) for a connected hub whose dispatch returned True gave
\* a task status with the generated command id as task_id and status
\* "pending"; every call whose dispatch returned False gave an error and no
\* task status.
C39_CommandEndpointsRespond ==
    \A i \in 1..Len(responses) :
        LET r == responses[i]
        IN r.connected =>
              /\ r.success = "True" =>
                    /\ r.returned.kind = "TaskStatusResponse"
                    /\ r.returned.task_id = r.command_id
                    /\ r.command_id > 0
                    /\ r.returned.status = "pending"
              /\ r.success = "False" =>
                    /\ r.returned.kind = "HTTPException"
                    /\ r.returned.task_id = 0

====
